---------------------------- MODULE Spec2Model ----------------------------
(***************************************************************************)
(* Model of the self-memory index of openclaw-hybrid-memory:               *)
(*   scripts/self-memory/build_index.py        (IndexBuilder)              *)
(*   scripts/self-memory/incremental_update.py (IncrementalIndexManager)   *)
(*   scripts/mem0_bridge_enhanced.py           (SelfMemorySearcher)        *)
(*                                                                         *)
(* The corpus is the set of *.md files of the memory directory.  A file    *)
(* is present or not, has a content (an abstract text) and an mtime.  The  *)
(* index directory holds six artifacts, each absent, readable or damaged.  *)
(* A writer is one invocation of build_index.py or incremental_update.py;  *)
(* it advances one file-system access at a time, so corpus changes and     *)
(* readers interleave with it.                                             *)
(*                                                                         *)
(* Abstractions: a document keeps path, content, mtime and its schema      *)
(* (kind); id, filename and title are functions of the path, size and      *)
(* word_count are functions of the content.  A token sequence is named by  *)
(* the text it was computed from, an embedding row by the text sent to the *)
(* provider.  sha256(...)[:16] is an injective map on the contents used.   *)
(***************************************************************************)
EXTENDS Integers, Sequences, FiniteSets, TLC

\* ---------------------------------------------------------------- bounds
MaxClock == 2
MaxContent == 2

Paths == {"a", "b"}
PathOrder == <<"a", "b">>
Contents == 1..MaxContent
Writers == {"w1", "w2"}
MainWriter == "w1"

VARIABLES corpus, clock, provider,
          docs_file, bm25_file, vector_file, meta_file, hash_file, state_file,
          proc, hist, reader

\* The query-result cache of search_cache.py: the entries of the SearchCache
\* instance, its two files, its parameters, the wall clock and, as history,
\* the last operation with its arguments and its return value.
VARIABLES _cache, cache_file, stats_file, max_size, ttl_seconds, now, last

cachevars == <<_cache, cache_file, stats_file, max_size, ttl_seconds, now, last>>

artifacts == <<docs_file, bm25_file, vector_file, meta_file, hash_file, state_file>>
snapshot == <<docs_file, bm25_file, vector_file, meta_file, hash_file>>
env == <<corpus, clock>>
indexvars == <<corpus, clock, provider, docs_file, bm25_file, vector_file,
               meta_file, hash_file, state_file, proc, hist, reader>>

\* Hybrid search (hybrid_search.py, mem0_bridge_enhanced.py, test_search.py):
\* the BM25 score of every indexed document for the query, the cosine
\* similarity of every document to the query (the empty array when the
\* embedding call for the query fails: get_embedding then returns []) and, as
\* history, the last search with its arguments, its intermediate arrays and
\* the list it returned.
VARIABLES bm25_scores, similarity, lastSearch

searchvars == <<bm25_scores, similarity, lastSearch>>

\* The tokenizer (tokenize of build_index.py, hybrid_search.py and the
\* others, _tokenize of incremental_update.py): as history, the last call
\* with its text and the tokens it returned.
VARIABLES tokenized

tokenvars == <<tokenized>>

\* Compaction guard (compaction_guard.py): the critical files of the
\* workspace, guard-state.json, the copies in the backup directory, the wall
\* clock and, as history, the last check_and_backup with what it did.
VARIABLES critical_files, guard_state, backup_dir, guard_time, guard_last

guardvars == <<critical_files, guard_state, backup_dir, guard_time, guard_last>>

vars == <<indexvars, cachevars, searchvars, tokenvars, guardvars>>

\* ------------------------------------------------------------- helpers
Range(s) == {s[i] : i \in 1..Len(s)}

SeqsOf(S) == {s \in [1..Cardinality(S) -> S] : \A i, j \in 1..Cardinality(S) : s[i] = s[j] => i = j}

NoFile == [present |-> FALSE, content |-> 0, mtime |-> 0]

CurrentPaths == {p \in Paths : corpus[p].present}

\* A file of the index directory.
Absent(v) == [st |-> "absent", val |-> v]
Stored(v) == [st |-> "ok", val |-> v]
Damaged(v) == [st |-> "corrupt", val |-> v]

\* _load_state's default when incremental_state.json is missing or unreadable.
NoTime == -1
DefaultState == [last_full_build |-> NoTime, file_hashes |-> <<>>, total_updates |-> 0]

_load_state == IF state_file.st = "ok" THEN state_file.val ELSE DefaultState

\* sha256 of the file's bytes, truncated; "" when the file cannot be read.
EmptyHash == 0
Digest(c) == 1000 + c

\* Mutant: the hash also covers the file's mtime.
HashWithMtime(p) == IF corpus[p].present THEN Digest(corpus[p].content) + 10 * corpus[p].mtime ELSE EmptyHash

_compute_file_hash(p) == IF corpus[p].present THEN Digest(corpus[p].content) ELSE EmptyHash

\* Documents as written by load_documents and by incremental_update.
BuildDoc(p) == [path |-> p, content |-> corpus[p].content, mtime |-> corpus[p].mtime, kind |-> "build"]
IncrDoc(p) == [path |-> p, content |-> corpus[p].content, mtime |-> NoTime, kind |-> "incr"]

\* load_documents: sorted(glob("*.md")), one document per file.
load_documents == LET present(p) == corpus[p].present
                      order == SelectSeq(PathOrder, present)
                  IN [i \in 1..Len(order) |-> BuildDoc(order[i])]

\* Token sequences: build tokenizes "filename content", the update "content".
tokenize_build(d) == [name |-> d.path, content |-> d.content]
tokenize_incr(d) == [name |-> "", content |-> d.content]

\* Embedding rows: the provider's vector for a text, or the zero vector.
ZeroRow == [zero |-> TRUE, name |-> "", content |-> 0]
EmbedBuild(d, ok) == IF ok THEN [zero |-> FALSE, name |-> d.path, content |-> d.content] ELSE ZeroRow
EmbedIncr(d, ok) == IF ok THEN [zero |-> FALSE, name |-> "", content |-> d.content] ELSE ZeroRow

\* compute_index_hash: digest over the (id, mtime) pairs sorted by id.
compute_index_hash(docs) == {<<docs[i].path, docs[i].mtime>> : i \in 1..Len(docs)}

check_needs_rebuild(docs) == IF hash_file.st /= "ok" THEN TRUE
                             ELSE compute_index_hash(docs) /= hash_file.val


\* ------------------------------------------------------- writer processes
\* The locals of one invocation.  dirty, route, view, noSnap, start and
\* loadBad are history: whether the corpus changed since the invocation
\* began, the branch it took and, of an incremental_update, the corpus paths
\* seen at diff time, whether the index directory held no snapshot then, the
\* history at that moment, and whether the snapshot it loaded was unreadable
\* or had a row count other than its document count.  embedded and failed are
\* history too: the paths whose text the invocation sent to the embedding
\* provider, and those among them whose call failed or timed out.  overlap is
\* history: another invocation was running at some moment of this one.
NoHist == [clean |-> FALSE, onlyTouched |-> FALSE, hashFresh |-> FALSE, touched |-> {}]

IdleProc == [pc |-> "idle", op |-> "none", force |-> FALSE,
             added |-> <<>>, modified |-> <<>>, deleted |-> <<>>,
             documents |-> <<>>, tokenized_corpus |-> <<>>, embeddings |-> <<>>,
             state |-> DefaultState, new_files |-> <<>>, new_documents |-> <<>>,
             new_embeddings |-> <<>>, result |-> "none", route |-> "none",
             view |-> {}, dirty |-> FALSE, noSnap |-> FALSE, start |-> NoHist,
             loadBad |-> FALSE, embedded |-> {}, failed |-> {}, overlap |-> FALSE]

Running(w) == proc[w].pc \notin {"idle", "done"}

\* A command is started when the previous one of the same shell has exited.
CanStart(w) == proc[w].pc = "idle"

\* The steps that read the corpus.  A corpus change is seen by the program
\* only in such a step, so the model lets it happen right before one (or
\* while no invocation runs); a finished invocation exits before anything
\* else happens to the corpus.
ReadsCorpus == {"b_load", "iu_read", "iu_embed", "fr_state"}

Observable == \/ \A w \in Writers : proc[w].pc = "idle"
              \/ \E w \in Writers : proc[w].pc \in ReadsCorpus

SnapshotAbsent == docs_file.st = "absent" /\ bm25_file.st = "absent" /\ vector_file.st = "absent"

\* An invocation ends: only its outcome and its history are kept.
Finish(q, res, route) == [IdleProc EXCEPT !.pc = "done", !.op = q.op, !.result = res, !.route = route,
                                          !.view = q.view, !.dirty = q.dirty, !.noSnap = q.noSnap,
                                          !.start = q.start, !.loadBad = q.loadBad,
                                          !.embedded = q.embedded, !.failed = q.failed,
                                          !.overlap = q.overlap]

\* Invocation w begins with locals q: it and every invocation still running
\* are from now on two invocations that ran at the same time.
Overlapping(w) == \E v \in Writers \ {w} : Running(v)

StartedWith(w, q) ==
    [v \in Writers |-> IF v = w THEN [q EXCEPT !.overlap = Overlapping(w)]
                       ELSE IF Running(v) THEN [proc[v] EXCEPT !.overlap = TRUE]
                       ELSE proc[v]]

\* ------------------------------------------------------------ the corpus
MarkDirty == [w \in Writers |-> IF Running(w) THEN [proc[w] EXCEPT !.dirty = TRUE] ELSE proc[w]]

\* hist is history only: clean = the corpus is as the last successful manager
\* invocation saw it; onlyTouched = it differs from that by touches at most;
\* hashFresh = the corpus differs from the one the stored corpus hash was
\* computed from by touches at most; touched = the files touched, content
\* unchanged, since incremental_state.json recorded them.
HistAfterEdit(p) == [hist EXCEPT !.clean = FALSE, !.onlyTouched = FALSE, !.hashFresh = FALSE,
                                 !.touched = @ \ {p}]

HistAfterTouch(p) == [hist EXCEPT !.clean = FALSE,
                                  !.touched = IF /\ p \in DOMAIN _load_state.file_hashes
                                                 /\ _load_state.file_hashes[p] = _compute_file_hash(p)
                                              THEN @ \cup {p} ELSE @]

AddFile(p, c) ==
    /\ Observable
    /\ ~corpus[p].present
    /\ clock < MaxClock
    /\ clock' = clock + 1
    /\ corpus' = [corpus EXCEPT ![p] = [present |-> TRUE, content |-> c, mtime |-> clock + 1]]
    /\ proc' = MarkDirty
    /\ hist' = HistAfterEdit(p)
    /\ UNCHANGED <<provider, artifacts, reader>>
    /\ UNCHANGED <<cachevars, searchvars, tokenvars, guardvars>>

ModifyFile(p, c) ==
    /\ Observable
    /\ corpus[p].present
    /\ corpus[p].content /= c
    /\ clock < MaxClock
    /\ clock' = clock + 1
    /\ corpus' = [corpus EXCEPT ![p] = [present |-> TRUE, content |-> c, mtime |-> clock + 1]]
    /\ proc' = MarkDirty
    /\ hist' = HistAfterEdit(p)
    /\ UNCHANGED <<provider, artifacts, reader>>
    /\ UNCHANGED <<cachevars, searchvars, tokenvars, guardvars>>

TouchFile(p) ==
    /\ Observable
    /\ corpus[p].present
    /\ clock < MaxClock
    /\ clock' = clock + 1
    /\ corpus' = [corpus EXCEPT ![p].mtime = clock + 1]
    /\ proc' = MarkDirty
    /\ hist' = HistAfterTouch(p)
    /\ UNCHANGED <<provider, artifacts, reader>>
    /\ UNCHANGED <<cachevars, searchvars, tokenvars, guardvars>>

DeleteFile(p) ==
    /\ Observable
    /\ corpus[p].present
    /\ clock < MaxClock
    /\ clock' = clock + 1
    /\ corpus' = [corpus EXCEPT ![p] = NoFile]
    /\ proc' = MarkDirty
    /\ hist' = HistAfterEdit(p)
    /\ UNCHANGED <<provider, artifacts, reader>>
    /\ UNCHANGED <<cachevars, searchvars, tokenvars, guardvars>>

\* An artifact is damaged between two invocations (a truncated write, a bad
\* disk block): it still exists and no longer deserializes.  Like a corpus
\* change it is an event of the environment and advances the clock.
HistAfterDamage == [hist EXCEPT !.clean = FALSE, !.onlyTouched = FALSE, !.hashFresh = FALSE,
                                !.touched = {}]

Damage(f) ==
    /\ \A w \in Writers : proc[w].pc = "idle"
    /\ clock < MaxClock
    /\ clock' = clock + 1
    /\ \/ f = "docs"   /\ docs_file.st = "ok"   /\ docs_file' = Damaged(<<>>)
          /\ UNCHANGED <<bm25_file, vector_file, state_file, hash_file>>
       \/ f = "bm25"   /\ bm25_file.st = "ok"   /\ bm25_file' = Damaged([layout |-> "none", corpus |-> <<>>])
          /\ UNCHANGED <<docs_file, vector_file, state_file, hash_file>>
       \/ f = "vector" /\ vector_file.st = "ok" /\ vector_file' = Damaged(<<>>)
          /\ UNCHANGED <<docs_file, bm25_file, state_file, hash_file>>
       \/ f = "state"  /\ state_file.st = "ok"  /\ state_file' = Damaged(DefaultState)
          /\ UNCHANGED <<docs_file, bm25_file, vector_file, hash_file>>
       \/ f = "hash"   /\ hash_file.st = "ok"   /\ hash_file' = Damaged({})
          /\ UNCHANGED <<docs_file, bm25_file, vector_file, state_file>>
    /\ hist' = HistAfterDamage
    /\ UNCHANGED <<corpus, provider, meta_file, proc, reader>>
    /\ UNCHANGED <<cachevars, searchvars, tokenvars, guardvars>>

\* ------------------------------------------------- IndexBuilder (build_index.py)
\* build_bm25_index and build_vector_index over the loaded documents; fails is
\* the set of documents whose embedding call failed.
build_bm25_index(docs) == [i \in 1..Len(docs) |-> tokenize_build(docs[i])]

PathsOf(docs) == [i \in 1..Len(docs) |-> docs[i].path]

\* Mutant: a document whose embedding call failed gets no row at all.
BuildVectorSkipFailed(docs, fails) ==
    LET kept == SelectSeq([i \in 1..Len(docs) |-> i], LAMBDA i : i \notin fails)
    IN [k \in 1..Len(kept) |-> EmbedBuild(docs[kept[k]], TRUE)]

build_vector_index(docs, fails) == [i \in 1..Len(docs) |-> EmbedBuild(docs[i], i \notin fails)]

\* What full_rebuild and main do with the builder's exit status.
AfterBuildSkipped(q) == IF q.op = "build" THEN Finish(q, "success", "uptodate")
                        ELSE [q EXCEPT !.pc = "fr_state", !.route = "uptodate", !.force = FALSE]

\* Mutant: a build that found no document exits with status 0.
BuildFailedExitsZero(q) == AfterBuildSkipped(q)

AfterBuildFailed(q) == Finish(q, "failure", "rebuild")

\* build(): load_documents, the empty check, check_needs_rebuild, both indexes.
B_Load(w) ==
    /\ proc[w].pc = "b_load"
    /\ LET q == proc[w]
           docs == load_documents
       IN IF docs = <<>>
          THEN proc' = [proc EXCEPT ![w] = AfterBuildFailed(q)]
          ELSE IF ~q.force /\ ~check_needs_rebuild(docs)
          THEN proc' = [proc EXCEPT ![w] = AfterBuildSkipped(q)]
          ELSE \E fails \in SUBSET (1..Len(docs)) :
                 /\ fails /= {} => provider = "flaky"
                 /\ proc' = [proc EXCEPT ![w] = [q EXCEPT !.pc = "b_bm25", !.route = "rebuild",
                                                    !.force = FALSE,
                                                    !.documents = docs,
                                                    !.embedded = Range(PathsOf(docs)),
                                                    !.failed = {docs[i].path : i \in fails},
                                                    !.tokenized_corpus = build_bm25_index(docs),
                                                    !.embeddings = build_vector_index(docs, fails)]]
    /\ UNCHANGED <<env, provider, artifacts, hist, reader>>
    /\ UNCHANGED <<cachevars, searchvars, tokenvars, guardvars>>

\* save_index, one file at a time, each written in place.
B_WriteBm25(w) ==
    /\ proc[w].pc = "b_bm25"
    /\ bm25_file' = Stored([layout |-> "dict", corpus |-> proc[w].tokenized_corpus])
    /\ proc' = [proc EXCEPT ![w].pc = "b_vec"]
    /\ UNCHANGED <<env, provider, docs_file, vector_file, meta_file, hash_file, state_file, hist, reader>>
    /\ UNCHANGED <<cachevars, searchvars, tokenvars, guardvars>>

B_WriteVec(w) ==
    /\ proc[w].pc = "b_vec"
    /\ vector_file' = Stored(proc[w].embeddings)
    /\ proc' = [proc EXCEPT ![w].pc = "b_meta"]
    /\ UNCHANGED <<env, provider, docs_file, bm25_file, meta_file, hash_file, state_file, hist, reader>>
    /\ UNCHANGED <<cachevars, searchvars, tokenvars, guardvars>>

B_WriteMeta(w) ==
    /\ proc[w].pc = "b_meta"
    /\ meta_file' = Stored(Len(proc[w].documents))
    /\ proc' = [proc EXCEPT ![w].pc = "b_docs"]
    /\ UNCHANGED <<env, provider, docs_file, bm25_file, vector_file, hash_file, state_file, hist, reader>>
    /\ UNCHANGED <<cachevars, searchvars, tokenvars, guardvars>>

B_WriteDocs(w) ==
    /\ proc[w].pc = "b_docs"
    /\ docs_file' = Stored(proc[w].documents)
    /\ proc' = [proc EXCEPT ![w].pc = "b_hash"]
    /\ UNCHANGED <<env, provider, bm25_file, vector_file, meta_file, hash_file, state_file, hist, reader>>
    /\ UNCHANGED <<cachevars, searchvars, tokenvars, guardvars>>

\* The history records that the corpus hash now describes the corpus, unless
\* the corpus changed while the build ran.
HistAfterBuild(q) == [hist EXCEPT !.hashFresh = ~q.dirty]

B_WriteHash(w) ==
    /\ proc[w].pc = "b_hash"
    /\ LET q == proc[w]
       IN /\ hash_file' = Stored(compute_index_hash(q.documents))
          /\ proc' = [proc EXCEPT ![w] = IF q.op = "build" THEN Finish(q, "success", "rebuild")
                                         ELSE [q EXCEPT !.pc = "fr_state"]]
          /\ hist' = HistAfterBuild(q)
    /\ UNCHANGED <<env, provider, docs_file, bm25_file, vector_file, meta_file, state_file, reader>>
    /\ UNCHANGED <<cachevars, searchvars, tokenvars, guardvars>>

\* main of build_index.py, as run by a user or by heartbeat's run_index_check.
StartBuild(w, force) ==
    /\ CanStart(w)
    /\ proc' = StartedWith(w, [IdleProc EXCEPT !.pc = "b_load", !.op = "build", !.force = force])
    /\ UNCHANGED <<env, provider, artifacts, hist, reader>>
    /\ UNCHANGED <<cachevars, searchvars, tokenvars, guardvars>>

\* main of build_index.py --check: check_needs_rebuild on a fresh IndexBuilder,
\* whose documents are the empty list of __init__ (load_documents is not
\* called); exit status 1 when a rebuild is reported as needed.
CheckCommand(w) ==
    /\ CanStart(w)
    /\ LET needs_rebuild == check_needs_rebuild(<<>>)
           q == [IdleProc EXCEPT !.op = "check"]
       IN proc' = [proc EXCEPT ![w] = Finish(q, IF needs_rebuild THEN "failure" ELSE "success",
                                                IF needs_rebuild THEN "rebuild" ELSE "uptodate")]
    /\ UNCHANGED <<env, provider, artifacts, hist, reader>>
    /\ UNCHANGED <<cachevars, searchvars, tokenvars, guardvars>>


\* ------------------------- IncrementalIndexManager (incremental_update.py)
\* scan_changes: the three sets, from incremental_state.json and the corpus.
\* The lists are filled while iterating over a set and a dict, in any order.
\* Mutant: the hash comparison of line 116 inverted.
ScanEqualAsModified ==
    LET prior == _load_state.file_hashes
    IN [added    |-> {p \in CurrentPaths : p \notin DOMAIN prior},
        modified |-> {p \in CurrentPaths : p \in DOMAIN prior /\ _compute_file_hash(p) = prior[p]},
        deleted  |-> {p \in DOMAIN prior : p \notin CurrentPaths}]

scan_changes ==
    LET prior == _load_state.file_hashes
    IN [added    |-> {p \in CurrentPaths : p \notin DOMAIN prior},
        modified |-> {p \in CurrentPaths : p \in DOMAIN prior /\ _compute_file_hash(p) /= prior[p]},
        deleted  |-> {p \in DOMAIN prior : p \notin CurrentPaths}]

Restrict(f, S) == [x \in S |-> f[x]]

\* Mutant: the hash of a processed file is not recorded.
PutNothing(f, k, v) == f

Put(f, k, v) == [x \in DOMAIN f \cup {k} |-> IF x = k THEN v ELSE f[x]]

\* Lines 160-170: drop the deleted and the modified documents from the list.
RemoveDocs(documents, gone) == LET keep(d) == d.path \notin gone IN SelectSeq(documents, keep)

\* Mutant: the hashes of the deleted files are kept.
KeepHashes(state, gone) == state

\* Lines 164-165: forget the hashes of the deleted files.
ForgetHashes(state, gone) == [state EXCEPT !.file_hashes = Restrict(@, DOMAIN @ \ gone)]

\* Lines 205-207: documents.extend and np.vstack.
MergeRows(embeddings, new_embeddings) == embeddings \o new_embeddings

HistAfterManager(q) == [hist EXCEPT !.clean = ~q.dirty, !.onlyTouched = ~q.dirty]

\* incremental_update up to its first return: the scan and the empty-diff exit.
StartIncremental(w) ==
    /\ CanStart(w)
    /\ LET d == scan_changes
           q == [IdleProc EXCEPT !.op = "incr", !.view = CurrentPaths, !.noSnap = SnapshotAbsent,
                                        !.start = hist]
       IN \E a \in SeqsOf(d.added), m \in SeqsOf(d.modified), g \in SeqsOf(d.deleted) :
            IF a = <<>> /\ m = <<>> /\ g = <<>>
            THEN /\ proc' = [proc EXCEPT ![w] = Finish(q, "success", "noop")]
                 /\ hist' = HistAfterManager(q)
            ELSE /\ proc' = StartedWith(w, [q EXCEPT !.pc = "iu_load", !.added = a,
                                                     !.modified = m, !.deleted = g])
                 /\ UNCHANGED hist
    /\ UNCHANGED <<env, provider, artifacts, reader>>
    /\ UNCHANGED <<cachevars, searchvars, tokenvars, guardvars>>

\* Lines 145-158: json.load, pickle.load or np.load raises.
LoadFails == docs_file.st /= "ok" \/ bm25_file.st /= "ok" \/ vector_file.st /= "ok"

\* Lines 139-173: the existence test, the guarded load, the removals.
IU_Load(w) ==
    /\ proc[w].pc = "iu_load"
    /\ LET q == proc[w]
           gone == Range(q.deleted)
           redo == Range(q.modified)
           news == q.added \o q.modified
       IN IF bm25_file.st = "absent"
          THEN proc' = [proc EXCEPT ![w] = [q EXCEPT !.pc = "b_load", !.force = FALSE]]
          ELSE IF LoadFails
          THEN proc' = [proc EXCEPT ![w] = [q EXCEPT !.pc = "b_load", !.force = FALSE, !.loadBad = TRUE]]
          ELSE proc' = [proc EXCEPT ![w] =
                          [q EXCEPT !.pc = IF news = <<>> THEN "iu_docs" ELSE "iu_read",
                                    !.route = "patch",
                                    !.loadBad = Len(vector_file.val) /= Len(docs_file.val),
                                    !.documents = RemoveDocs(RemoveDocs(docs_file.val, gone), redo),
                                    !.embeddings = vector_file.val,
                                    !.state = ForgetHashes(_load_state, gone),
                                    !.new_files = news]]
    /\ UNCHANGED <<env, provider, artifacts, hist, reader>>
    /\ UNCHANGED <<cachevars, searchvars, tokenvars, guardvars>>

\* Line 184: read_text of the next new file; a file gone since the scan raises.
IU_Read(w) ==
    /\ proc[w].pc = "iu_read"
    /\ LET q == proc[w]
           p == Head(q.new_files)
       IN IF ~corpus[p].present
          THEN proc' = [proc EXCEPT ![w] = Finish(q, "raised", "patch")]
          ELSE proc' = [proc EXCEPT ![w] = [q EXCEPT !.pc = "iu_embed",
                                                     !.new_documents = Append(@, IncrDoc(p))]]
    /\ UNCHANGED <<env, provider, artifacts, hist, reader>>
    /\ UNCHANGED <<cachevars, searchvars, tokenvars, guardvars>>

\* Lines 198-207: the embedding call, then the hash of the file as it is now;
\* after the last file, the merge.
IU_EmbedHash(w) ==
    /\ proc[w].pc = "iu_embed"
    /\ LET q == proc[w]
           p == Head(q.new_files)
           d == q.new_documents[Len(q.new_documents)]
           rest == Tail(q.new_files)
       IN \E ok \in BOOLEAN :
            /\ ~ok => provider = "flaky"
            /\ LET rows == Append(q.new_embeddings, EmbedIncr(d, ok))
                   st == [q.state EXCEPT !.file_hashes = Put(@, p, _compute_file_hash(p))]
                   sent == q.embedded \cup {p}
                   bad == IF ok THEN q.failed ELSE q.failed \cup {p}
               IN proc' = [proc EXCEPT ![w] =
                     IF rest /= <<>>
                     THEN [q EXCEPT !.pc = "iu_read", !.new_files = rest,
                                    !.new_embeddings = rows, !.state = st,
                                    !.embedded = sent, !.failed = bad]
                     ELSE [q EXCEPT !.pc = "iu_docs", !.new_files = rest, !.state = st,
                                    !.embedded = sent, !.failed = bad,
                                    !.documents = q.documents \o q.new_documents,
                                    !.embeddings = MergeRows(q.embeddings, rows),
                                    !.new_documents = <<>>, !.new_embeddings = <<>>]]
    /\ UNCHANGED <<env, provider, artifacts, hist, reader>>
    /\ UNCHANGED <<cachevars, searchvars, tokenvars, guardvars>>

\* Lines 209-218: BM25Okapi over the documents (it divides by the corpus size,
\* so an empty list raises), then documents.json written in place.
IU_WriteDocs(w) ==
    /\ proc[w].pc = "iu_docs"
    /\ LET q == proc[w]
       IN IF q.documents = <<>>
          THEN /\ proc' = [proc EXCEPT ![w] = Finish(q, "raised", "patch")]
               /\ UNCHANGED docs_file
          ELSE /\ docs_file' = Stored(q.documents)
               /\ proc' = [proc EXCEPT ![w] =
                             [q EXCEPT !.pc = "iu_bm25",
                                       !.tokenized_corpus = [i \in 1..Len(q.documents) |-> tokenize_incr(q.documents[i])]]]
    /\ UNCHANGED <<env, provider, bm25_file, vector_file, meta_file, hash_file, state_file, hist, reader>>
    /\ UNCHANGED <<cachevars, searchvars, tokenvars, guardvars>>

IU_WriteBm25(w) ==
    /\ proc[w].pc = "iu_bm25"
    /\ bm25_file' = Stored([layout |-> "bare", corpus |-> proc[w].tokenized_corpus])
    /\ proc' = [proc EXCEPT ![w].pc = "iu_vec"]
    /\ UNCHANGED <<env, provider, docs_file, vector_file, meta_file, hash_file, state_file, hist, reader>>
    /\ UNCHANGED <<cachevars, searchvars, tokenvars, guardvars>>

IU_WriteVec(w) ==
    /\ proc[w].pc = "iu_vec"
    /\ vector_file' = Stored(proc[w].embeddings)
    /\ proc' = [proc EXCEPT ![w].pc = "iu_state"]
    /\ UNCHANGED <<env, provider, docs_file, bm25_file, meta_file, hash_file, state_file, hist, reader>>
    /\ UNCHANGED <<cachevars, searchvars, tokenvars, guardvars>>

\* Lines 225-235.
\* Mutant: the update saves the count as it was.
IU_SaveStateSameCount(w) ==
    /\ proc[w].pc = "iu_state"
    /\ LET q == proc[w]
       IN /\ state_file' = Stored([q.state EXCEPT !.last_full_build = clock])
          /\ proc' = [proc EXCEPT ![w] = Finish(q, "success", "patch")]
          /\ hist' = HistAfterManager(q)
    /\ UNCHANGED <<env, provider, snapshot, reader>>
    /\ UNCHANGED <<cachevars, searchvars, tokenvars, guardvars>>

IU_SaveState(w) ==
    /\ proc[w].pc = "iu_state"
    /\ LET q == proc[w]
       IN /\ state_file' = Stored([q.state EXCEPT !.last_full_build = clock, !.total_updates = @ + 1])
          /\ proc' = [proc EXCEPT ![w] = Finish(q, "success", "patch")]
          /\ hist' = HistAfterManager(q)
    /\ UNCHANGED <<env, provider, snapshot, reader>>
    /\ UNCHANGED <<cachevars, searchvars, tokenvars, guardvars>>

\* full_rebuild after the builder exited with status 0: the state is reset to
\* the hashes of the files found now.
FR_SaveState(w) ==
    /\ proc[w].pc = "fr_state"
    /\ LET q == proc[w]
       IN /\ state_file' = Stored([last_full_build |-> clock,
                                   file_hashes |-> [p \in CurrentPaths |-> _compute_file_hash(p)],
                                   total_updates |-> 1])
          /\ proc' = [proc EXCEPT ![w] = Finish(q, "success", q.route)]
          /\ hist' = HistAfterManager(q)
    /\ UNCHANGED <<env, provider, snapshot, reader>>
    /\ UNCHANGED <<cachevars, searchvars, tokenvars, guardvars>>

\* incremental_update.py --full.
StartFullRebuild(w) ==
    /\ CanStart(w)
    /\ proc' = StartedWith(w, [IdleProc EXCEPT !.pc = "b_load", !.op = "full"])
    /\ UNCHANGED <<env, provider, artifacts, hist, reader>>
    /\ UNCHANGED <<cachevars, searchvars, tokenvars, guardvars>>

\* The process exits; the next invocation starts from fresh locals.
Return(w) ==
    /\ proc[w].pc = "done"
    /\ proc' = [proc EXCEPT ![w] = IdleProc]
    /\ UNCHANGED <<env, provider, artifacts, hist, reader>>
    /\ UNCHANGED <<cachevars, searchvars, tokenvars, guardvars>>

\* ------------------- SelfMemorySearcher.load_index (mem0_bridge_enhanced.py)
\* A searcher loads documents.json, then the BM25 pickle, then the matrix.
\* Of a loaded searcher the model keeps the sizes of what it holds: n_docs =
\* len(self.documents), n_rows = self.embeddings.shape[0].  concurrent is
\* history: a writer was between two of its file writes when the searcher
\* read the manifest or the matrix.
IdleReader == [pc |-> "idle", documents |-> <<>>, n_docs |-> 0, n_rows |-> 0, concurrent |-> FALSE]

Persisting(w) == proc[w].pc \in {"b_vec", "b_meta", "b_docs", "b_hash", "iu_bm25", "iu_vec", "iu_state"}

WriterPersisting == \E w \in Writers : Persisting(w)

LoadFailed == [IdleReader EXCEPT !.pc = "failed"]

\* Lines 86-93: a fresh searcher reads the manifest and tokenizes it.
R_ReadDocs ==
    /\ reader.pc \in {"idle", "loaded", "failed"}
    /\ reader' = IF docs_file.st /= "ok" THEN LoadFailed
                 ELSE [IdleReader EXCEPT !.pc = "r_bm25", !.documents = docs_file.val,
                                         !.concurrent = WriterPersisting]
    /\ UNCHANGED <<env, provider, artifacts, proc, hist>>
    /\ UNCHANGED <<cachevars, searchvars, tokenvars, guardvars>>

\* _save_bm25: the searcher's own model, pickled without the token lists.
SearcherBm25(documents) == Stored([layout |-> "bare",
                                   corpus |-> [i \in 1..Len(documents) |-> tokenize_incr(documents[i])]])

\* Lines 95-110: the pickle is used if it has get_scores; a missing pickle
\* or one of another type (the builder's dict) is rebuilt and saved.
R_LoadBm25 ==
    /\ reader.pc = "r_bm25"
    /\ IF bm25_file.st = "corrupt"
       THEN reader' = LoadFailed /\ UNCHANGED bm25_file
       ELSE IF bm25_file.st = "ok" /\ bm25_file.val.layout = "bare"
       THEN reader' = [reader EXCEPT !.pc = "r_vec"] /\ UNCHANGED bm25_file
       ELSE IF reader.documents = <<>>
       THEN reader' = LoadFailed /\ UNCHANGED bm25_file
       ELSE /\ bm25_file' = SearcherBm25(reader.documents)
            /\ reader' = [reader EXCEPT !.pc = "r_vec"]
    /\ UNCHANGED <<env, provider, docs_file, vector_file, meta_file, hash_file, state_file, proc, hist>>
    /\ UNCHANGED <<cachevars, searchvars, tokenvars, guardvars>>

\* Lines 112-117: np.load of the matrix.
R_ReadVec ==
    /\ reader.pc = "r_vec"
    /\ reader' = IF vector_file.st /= "ok" THEN LoadFailed
                 ELSE [IdleReader EXCEPT !.pc = "loaded",
                                         !.n_docs = Len(reader.documents),
                                         !.n_rows = Len(vector_file.val),
                                         !.concurrent = reader.concurrent \/ WriterPersisting]
    /\ UNCHANGED <<env, provider, artifacts, proc, hist>>
    /\ UNCHANGED <<cachevars, searchvars, tokenvars, guardvars>>

Reader == R_ReadDocs \/ R_LoadBm25 \/ R_ReadVec

\* ------------------------------------------- SearchCache (search_cache.py)
MaxNow == 2
MaxOps == 4
MaxSize == 2
MaxTtl == 1
MaxDocs == 3

\* The values of max_size: the smallest one and MaxSize.
Sizes == {1, MaxSize}

\* Queries are strings, modelled as sequences of characters.  The first two
\* differ in letter case and in whitespace only.
Queries == {<<"a", " ", "b">>, <<" ", "A", " ", " ", "b">>, <<"a", "b">>}

\* The queries whose results are stored: one per normalised text, the one of
\* "a b" neither lowercase nor single-spaced.
SetQueries == {<<" ", "A", " ", " ", "b">>, <<"a", "b">>}

\* Result lists, the empty one included.
ResultLists == {<<>>, <<"d1">>}

\* str.lower, str.split and ' '.join.
Lower(c) == CASE c = "A" -> "a" [] c = "B" -> "b" [] OTHER -> c

lower(query) == [i \in 1..Len(query) |-> Lower(query[i])]

WordLen(s) == IF \E i \in 1..Len(s) : s[i] = " "
              THEN (CHOOSE i \in 1..Len(s) : s[i] = " " /\ \A j \in 1..(i-1) : s[j] /= " ") - 1
              ELSE Len(s)

RECURSIVE split(_)
split(s) == IF s = <<>> THEN <<>>
            ELSE IF Head(s) = " " THEN split(Tail(s))
            ELSE <<SubSeq(s, 1, WordLen(s))>> \o split(SubSeq(s, WordLen(s) + 1, Len(s)))

RECURSIVE join(_)
join(words) == IF words = <<>> THEN <<>>
               ELSE IF Len(words) = 1 THEN words[1]
               ELSE words[1] \o <<" ">> \o join(Tail(words))

\* md5(...).hexdigest()[:16]: a tag of the normalized text, without collision
\* on the queries used.
Md5(text) == <<"md5", text>>

\* Mutant: the query is hashed as typed.
HashOfRawQuery(query) == Md5(query)

_compute_hash(query) == Md5(join(split(lower(query))))

\* timestamp and last_accessed are floats of time.time().  The model keeps
\* their value on the coarse clock now and, in order, the rank of
\* last_accessed among the access times of the entries that exist: two calls
\* never read the same float, a later call reads a larger one.
CacheEntry(query_hash, query, results, t, rank) ==
    [query_hash |-> query_hash, query |-> query, results |-> results,
     timestamp |-> t, hit_count |-> 1, last_accessed |-> t, order |-> rank]

\* self._cache is a dict: entries in insertion order, one per key.
HasKey(c, h) == \E i \in 1..Len(c) : c[i].query_hash = h

KeyIndex(c, h) == CHOOSE i \in 1..Len(c) : c[i].query_hash = h

\* Mutant: storing under an existing key keeps the hit count of the old entry.
DictSetKeepCount(c, e) ==
    IF HasKey(c, e.query_hash)
    THEN [c EXCEPT ![KeyIndex(c, e.query_hash)] = [e EXCEPT !.hit_count = c[KeyIndex(c, e.query_hash)].hit_count]]
    ELSE Append(c, e)

DictSet(c, e) == IF HasKey(c, e.query_hash) THEN [c EXCEPT ![KeyIndex(c, e.query_hash)] = e]
                 ELSE Append(c, e)

DictDel(c, h) == SelectSeq(c, LAMBDA e : e.query_hash /= h)

\* Mutant: an entry expires as soon as its age reaches ttl.
ExpiredAtTtl(e, t) == t - e.timestamp >= ttl_seconds

Expired(e, t) == t - e.timestamp > ttl_seconds

Purged(c, t) == SelectSeq(c, LAMBDA e : ~Expired(e, t))

\* sorted(items, key=(hit_count, last_accessed), reverse=True): descending and
\* stable.
\* Mutant: the sort is ascending.
KeySmaller(x, y) == \/ x.hit_count < y.hit_count
                    \/ x.hit_count = y.hit_count /\ x.last_accessed < y.last_accessed
                    \/ /\ x.hit_count = y.hit_count /\ x.last_accessed = y.last_accessed
                       /\ x.order < y.order

KeyGreater(x, y) == \/ x.hit_count > y.hit_count
                    \/ x.hit_count = y.hit_count /\ x.last_accessed > y.last_accessed
                    \/ /\ x.hit_count = y.hit_count /\ x.last_accessed = y.last_accessed
                       /\ x.order > y.order

InsertDesc(sorted, e) ==
    LET k == Cardinality({i \in 1..Len(sorted) : ~KeyGreater(e, sorted[i])})
    IN SubSeq(sorted, 1, k) \o <<e>> \o SubSeq(sorted, k + 1, Len(sorted))

RECURSIVE SortDesc(_)
SortDesc(c) == IF c = <<>> THEN <<>>
               ELSE InsertDesc(SortDesc(SubSeq(c, 1, Len(c) - 1)), c[Len(c)])

\* Mutant: the size test of line 74 is off by one.
TrimmedAboveLimit(c) == IF Len(c) > max_size + 1 THEN SubSeq(SortDesc(c), 1, max_size) ELSE c

Trimmed(c) == IF Len(c) > max_size THEN SubSeq(SortDesc(c), 1, max_size) ELSE c

\* _save_cache: what is left in self._cache, which is also what is written.
_save_cache(c) == Trimmed(Purged(c, now))

\* hit_rate is a float: the model keeps the fraction, 0 being 0 / 1.
DefaultStats ==
    [hits |-> 0, misses |-> 0, adds |-> 0, total_queries |-> 0, hit_rate |-> [num |-> 0, den |-> 1],
     cache_size |-> 0]

\* _load_stats on a stats file, and on the stats file as it is.
LoadStats(file) == IF file.st = "ok" THEN file.val ELSE DefaultStats

_load_stats == LoadStats(stats_file)

\* Mutant: an add counts as a query.
UpdateStatsCountsAdd(file, hit, miss, add, size) ==
    LET stats == LoadStats(file)
        hits == stats.hits + (IF hit THEN 1 ELSE 0)
        misses == stats.misses + (IF miss THEN 1 ELSE 0)
        total == hits + misses
    IN Stored([hits |-> hits,
               misses |-> misses,
               adds |-> stats.adds + (IF add THEN 1 ELSE 0),
               total_queries |-> stats.total_queries + (IF hit \/ miss \/ add THEN 1 ELSE 0),
               hit_rate |-> IF total > 0 THEN [num |-> hits, den |-> total] ELSE stats.hit_rate,
               cache_size |-> size])

\* _update_stats: the stats file written from the stats file read, size being
\* len(self._cache).
_update_stats(file, hit, miss, add, size) ==
    LET stats == LoadStats(file)
        hits == stats.hits + (IF hit THEN 1 ELSE 0)
        misses == stats.misses + (IF miss THEN 1 ELSE 0)
        total == hits + misses
    IN Stored([hits |-> hits,
               misses |-> misses,
               adds |-> stats.adds + (IF add THEN 1 ELSE 0),
               total_queries |-> stats.total_queries + (IF hit \/ miss THEN 1 ELSE 0),
               hit_rate |-> IF total > 0 THEN [num |-> hits, den |-> total] ELSE stats.hit_rate,
               cache_size |-> size])

\* The rank of the next value of time.time() among the stored access times.
Ranks ==
    {_cache[i].order : i \in 1..Len(_cache)} \cup {cache_file.val[i].order : i \in 1..Len(cache_file.val)}

NextRank == IF Ranks = {} THEN 1 ELSE 1 + (CHOOSE r \in Ranks : \A x \in Ranks : x <= r)

\* The last call: its name, its arguments, whether a get returned a list (hit)
\* and the list returned, and whether a get was the first call of an instance
\* that had just loaded the store.  Time passing is recorded as a call of its
\* own, so that "immediately after" is "in the next step".  evicted holds the
\* entries that the size limit of _save_cache removed during a set.  For a
\* query (enhanced_search, cached_search, EnhancedSearchEngine.search): hit is
\* what its get reported, searched whether the indexes were queried, results
\* what they gave, ret the list returned, ioerror whether a write of the cache
\* store or of the stats file failed during the query and raised whether an
\* exception reached the caller.
NoOp ==
    [op |-> "none", query |-> <<>>, results |-> <<>>, hit |-> FALSE, ret |-> <<>>, afterLoad |-> FALSE,
     evicted |-> {}, searched |-> FALSE, ioerror |-> FALSE, raised |-> FALSE]

OpsLeft == _load_stats.total_queries + _load_stats.adds < MaxOps

\* The body of get, lines 95-116, on cache c and stats file `file`, the access
\* time having rank `rank`.  fail: the write of the stats file in
\* _update_stats raises (the file is left as it was), and so does get, after
\* it has changed the entry.  Nothing is written to the cache store.
GetOn(c, file, query, rank, fail) ==
    LET query_hash == _compute_hash(query)
        found == HasKey(c, query_hash)
        entry == c[KeyIndex(c, query_hash)]
        hit == found /\ ~Expired(entry, now)
        cache == IF ~found THEN c
                 ELSE IF ~hit THEN DictDel(c, query_hash)
                 ELSE [c EXCEPT ![KeyIndex(c, query_hash)] =
                          [entry EXCEPT !.hit_count = @ + 1, !.last_accessed = now, !.order = rank]]
    IN [cache |-> cache,
        stats |-> IF fail THEN file ELSE _update_stats(file, hit, ~hit, FALSE, Len(cache)),
        raised |-> fail,
        hit |-> hit /\ ~fail,
        ret |-> IF hit /\ ~fail THEN entry.results ELSE <<>>]

\* The body of set, lines 118-133: the new entry, _save_cache, the stats.
\* cfail: the write of the cache store raises; sfail: the write of the stats
\* file raises.  Either leaves its file as it was and ends the call.
SetOn(c, store, file, query, results, rank, cfail, sfail) ==
    LET entry == CacheEntry(_compute_hash(query), query, results, now, rank)
        fresh == Purged(DictSet(c, entry), now)
        kept == _save_cache(DictSet(c, entry))
    IN [cache |-> kept,
        store |-> IF cfail THEN store ELSE Stored(kept),
        stats |-> IF cfail \/ sfail THEN file ELSE _update_stats(file, FALSE, FALSE, TRUE, Len(kept)),
        raised |-> cfail \/ sfail,
        evicted |-> Range(fresh) \ Range(kept)]

\* get without an I/O error.
get(query) ==
    /\ OpsLeft
    /\ \E g \in {GetOn(_cache, stats_file, query, NextRank, FALSE)} :
          /\ _cache' = g.cache
          /\ stats_file' = g.stats
          /\ last' = [NoOp EXCEPT !.op = "get", !.query = query, !.afterLoad = (last.op = "load"),
                                  !.hit = g.hit, !.ret = g.ret]
    /\ UNCHANGED <<cache_file, max_size, ttl_seconds, now, indexvars, searchvars, tokenvars, guardvars>>

\* set without an I/O error.
set(query, results) ==
    /\ OpsLeft
    /\ \E s \in {SetOn(_cache, cache_file, stats_file, query, results, NextRank, FALSE, FALSE)} :
          /\ _cache' = s.cache
          /\ cache_file' = s.store
          /\ stats_file' = s.stats
          /\ last' = [NoOp EXCEPT !.op = "set", !.query = query, !.results = results,
                                  !.evicted = s.evicted]
    /\ UNCHANGED <<max_size, ttl_seconds, now, indexvars, searchvars, tokenvars, guardvars>>

\* Queries stop when the counters reach their bounds; a call whose stats write
\* fails still counts a hit on its entry or stores an entry.
QueryBudget ==
    /\ OpsLeft
    /\ NextRank <= MaxOps
    /\ \A e \in Range(_cache) : e.hit_count <= MaxOps

\* enhanced_search, enhanced_search.py lines 23-71, with use_cache: the get
\* inside try/except and tested with "if cached", the search when the memory
\* directory holds documents, the set inside try/except.  documents: whether
\* load_memories_from_files finds any; results: what HybridSearch.search
\* returns (empty for top_k = 0).
enhanced_search(query, documents, results, gfail, cfail, sfail) ==
    /\ QueryBudget
    /\ \E g \in {GetOn(_cache, stats_file, query, NextRank, gfail)} :
          LET cached == g.hit /\ g.ret /= <<>>
              call == [NoOp EXCEPT !.op = "enhanced_search", !.query = query, !.hit = g.hit,
                                   !.ioerror = g.raised]
          IN IF cached \/ ~documents
             THEN /\ _cache' = g.cache
                  /\ stats_file' = g.stats
                  /\ last' = [call EXCEPT !.ret = IF cached THEN g.ret ELSE <<>>]
                  /\ UNCHANGED cache_file
             ELSE \E s \in {SetOn(g.cache, cache_file, g.stats, query, results, NextRank + 1, cfail, sfail)} :
                  /\ _cache' = s.cache
                  /\ cache_file' = s.store
                  /\ stats_file' = s.stats
                  /\ last' = [call EXCEPT !.searched = TRUE, !.results = results, !.ret = results,
                                          !.ioerror = g.raised \/ s.raised]
    /\ UNCHANGED <<max_size, ttl_seconds, now, indexvars, searchvars, tokenvars, guardvars>>

\* A query that tests the get with "is not None" and guards neither the get
\* nor the set: cached_search and EnhancedSearchEngine.search.
CheckThenSearch(name, query, results, gfail, cfail, sfail) ==
    /\ QueryBudget
    /\ \E g \in {GetOn(_cache, stats_file, query, NextRank, gfail)} :
          LET call == [NoOp EXCEPT !.op = name, !.query = query, !.hit = g.hit]
          IN IF g.raised \/ g.hit
             THEN /\ _cache' = g.cache
                  /\ stats_file' = g.stats
                  /\ last' = [call EXCEPT !.ret = g.ret, !.ioerror = g.raised, !.raised = g.raised]
                  /\ UNCHANGED cache_file
             ELSE \E s \in {SetOn(g.cache, cache_file, g.stats, query, results, NextRank + 1, cfail, sfail)} :
                  /\ _cache' = s.cache
                  /\ cache_file' = s.store
                  /\ stats_file' = s.stats
                  /\ last' = [call EXCEPT !.searched = TRUE, !.results = results,
                                          !.ret = IF s.raised THEN <<>> ELSE results,
                                          !.ioerror = s.raised, !.raised = s.raised]
    /\ UNCHANGED <<max_size, ttl_seconds, now, indexvars, searchvars, tokenvars, guardvars>>

\* cached_search, search_cache.py lines 226-246.
cached_search(query, results, gfail, cfail, sfail) ==
    CheckThenSearch("cached_search", query, results, gfail, cfail, sfail)

\* EnhancedSearchEngine.search, mem0_bridge_enhanced.py lines 332-399, with
\* use_cache and CACHE_ENABLED; results is the fused, deduplicated top_k.
EnhancedSearchEngine_search(query, results, gfail, cfail, sfail) ==
    CheckThenSearch("EnhancedSearchEngine.search", query, results, gfail, cfail, sfail)

\* invalidate, lines 167-177; an empty query string is falsy and clears all.
\* Mutant: the entry of the query stays in the cache.
invalidateNothing(query) ==
    /\ LET kept == _save_cache(IF query /= <<>> THEN _cache ELSE <<>>)
       IN /\ _cache' = kept
          /\ cache_file' = Stored(kept)
    /\ last' = [NoOp EXCEPT !.op = "invalidate", !.query = query]
    /\ UNCHANGED <<stats_file, max_size, ttl_seconds, now, indexvars, searchvars, tokenvars, guardvars>>

invalidate(query) ==
    /\ LET kept == _save_cache(IF query /= <<>> THEN DictDel(_cache, _compute_hash(query)) ELSE <<>>)
       IN /\ _cache' = kept
          /\ cache_file' = Stored(kept)
    /\ last' = [NoOp EXCEPT !.op = "invalidate", !.query = query]
    /\ UNCHANGED <<stats_file, max_size, ttl_seconds, now, indexvars, searchvars, tokenvars, guardvars>>

\* clear_expired, lines 200-214: the store is written only if something expired.
clear_expired ==
    /\ LET kept == Purged(_cache, now)
       IN IF kept /= _cache
          THEN /\ _cache' = _save_cache(kept)
               /\ cache_file' = Stored(_save_cache(kept))
          ELSE UNCHANGED <<_cache, cache_file>>
    /\ last' = [NoOp EXCEPT !.op = "clear_expired"]
    /\ UNCHANGED <<stats_file, max_size, ttl_seconds, now, indexvars, searchvars, tokenvars, guardvars>>

\* _load_cache: every stored entry is loaded, expired or not.
_load_cache == IF cache_file.st = "ok" THEN cache_file.val ELSE <<>>

\* A new SearchCache instance (a new process) over the same files.
NewInstance(size) ==
    /\ _cache' = _load_cache
    /\ max_size' = size
    /\ last' = [NoOp EXCEPT !.op = "load"]
    /\ UNCHANGED <<cache_file, stats_file, ttl_seconds, now, indexvars, searchvars, tokenvars, guardvars>>

\* time.time() advances.
Tick ==
    /\ now < MaxNow
    /\ now' = now + 1
    /\ last' = [NoOp EXCEPT !.op = "time"]
    /\ UNCHANGED <<_cache, cache_file, stats_file, max_size, ttl_seconds, indexvars, searchvars, tokenvars, guardvars>>

CacheInit(sizes, ttls) ==
    /\ _cache = <<>>
    /\ cache_file = Absent(<<>>)
    /\ stats_file = Absent(DefaultStats)
    /\ max_size \in sizes
    /\ ttl_seconds \in ttls
    /\ now = 0
    /\ last = NoOp

\* -------------------------------------------------------- hybrid search

\* Scores are floating-point numbers in the code. Here a score is the exact
\* fraction num/den with den > 0, and the one float that is not a number, the
\* 0.0/0.0 of numpy, is the fraction with den = 0. BM25 scores are whole
\* numbers of an arbitrary unit and cosine similarities are -1, 0 or 1.
Frac(n, d) == [num |-> n, den |-> d]

NaN == Frac(0, 0)

IsNaN(x) == x.den = 0

\* numpy's a / b for b >= 0, where b = 0 only happens with a = 0.
Divide(a, b) == IF b = 0 THEN NaN ELSE Frac(a, b)

\* IEEE comparisons: every comparison with NaN is false.
Leq(x, y) == ~IsNaN(x) /\ ~IsNaN(y) /\ x.num * y.den <= y.num * x.den

Less(x, y) == ~IsNaN(x) /\ ~IsNaN(y) /\ x.num * y.den < y.num * x.den

Same(x, y) == ~IsNaN(x) /\ ~IsNaN(y) /\ x.num * y.den = y.num * x.den

ArrayMax(a) == CHOOSE m \in Range(a) : \A x \in Range(a) : x <= m

ArrayMin(a) == CHOOSE m \in Range(a) : \A x \in Range(a) : m <= x

Bm25Values == {0, 1, 2}

Cosines == {-1, 0, 1}

\* Weights are given in tenths: the defaults are 0.7 and 0.3.
Tenths == 10

VectorWeights == {7, Tenths}

TopKs == 1..MaxDocs

\* bm25_scores / bm25_scores.max() when the maximum is positive.
Bm25Normalized(scores) ==
    IF ArrayMax(scores) > 0
    THEN [i \in DOMAIN scores |-> Frac(scores[i], ArrayMax(scores))]
    ELSE [i \in DOMAIN scores |-> Frac(scores[i], 1)]

MinMax(scores) ==
    [i \in DOMAIN scores |-> Divide(scores[i] - ArrayMin(scores), ArrayMax(scores) - ArrayMin(scores))]

Unchanged(scores) == [i \in DOMAIN scores |-> Frac(scores[i], 1)]

\* HybridSearch.search: min-max normalisation whenever the maximum is positive.
VectorNormalizedIfPositive(scores) ==
    IF ArrayMax(scores) > 0 THEN MinMax(scores) ELSE Unchanged(scores)

\* SelfMemorySearcher.search and SearchTester.search_hybrid: min-max
\* normalisation whenever the maximum exceeds the minimum.
VectorNormalizedIfSpread(scores) ==
    IF ArrayMax(scores) > ArrayMin(scores) THEN MinMax(scores) ELSE Unchanged(scores)

\* bm25_weight * bm25_normalized + vector_weight * vector_normalized for one
\* document; a NaN operand gives NaN, whatever its weight.
Fuse(bm25_weight, b, vector_weight, v) ==
    IF IsNaN(b) \/ IsNaN(v) THEN NaN
    ELSE Frac(bm25_weight * b.num * v.den + vector_weight * v.num * b.den, Tenths * b.den * v.den)

Combined(bm25_weight, bn, vector_weight, vn) ==
    [i \in DOMAIN bn |-> Fuse(bm25_weight, bn[i], vector_weight, vn[i])]

\* np.argsort: the index arrays that put the scores in ascending order, NaN
\* last. The default sort kind is not stable: equal scores may come in any
\* order.
SortsBefore(x, y) == (~IsNaN(x) /\ IsNaN(y)) \/ Less(x, y)

ArgSorts(scores) ==
    {p \in [DOMAIN scores -> DOMAIN scores] :
        /\ \A i, j \in DOMAIN scores : i /= j => p[i] /= p[j]
        /\ \A i, j \in DOMAIN scores : i < j => ~SortsBefore(scores[p[j]], scores[p[i]])}

\* a[::-1]
Reversed(a) == [i \in DOMAIN a |-> a[Len(a) + 1 - i]]

\* a[:k] for k >= 0
FirstK(a, k) == SubSeq(a, 1, IF k < Len(a) THEN k ELSE Len(a))

NoSearch ==
    [impl |-> "none", embedded |-> FALSE, vector_weight |-> 0, bm25_weight |-> 0, top_k |-> 0,
     vector_scores |-> <<>>, bm25_normalized |-> <<>>, vector_normalized |-> <<>>,
     combined_scores |-> <<>>, results |-> <<>>]

\* The body the three implementations share from the fusion on: the weighted
\* sum, the selection of the first top_k indices of the reversed argsort and
\* the result records with their ranks.
FuseAndSelect(impl, embedded, vector_weight, top_k, vector_scores, bn, vn) ==
    \E bm25_weight \in {Tenths - vector_weight} :
    \E combined_scores \in {Combined(bm25_weight, bn, vector_weight, vn)} :
    \E order \in ArgSorts(combined_scores) :
    \E top_indices \in {FirstK(Reversed(order), top_k)} :
        /\ lastSearch' = [impl |-> impl, embedded |-> embedded, vector_weight |-> vector_weight,
                          bm25_weight |-> bm25_weight, top_k |-> top_k,
                          vector_scores |-> vector_scores, bm25_normalized |-> bn,
                          vector_normalized |-> vn, combined_scores |-> combined_scores,
                          results |-> [r \in DOMAIN top_indices |->
                                         [idx |-> top_indices[r],
                                          bm25_score |-> bm25_scores[top_indices[r]],
                                          vector_score |-> vector_scores[top_indices[r]],
                                          combined_score |-> combined_scores[top_indices[r]],
                                          rank |-> r]]]
        /\ UNCHANGED <<bm25_scores, similarity, indexvars, cachevars, tokenvars, guardvars>>

\* The vector scores of a query: the cosine similarities when the embedding
\* call for the query succeeded, zeros when it failed or timed out.
Embedded == similarity /= <<>>

VectorScoresOne ==
    IF Embedded THEN similarity ELSE [i \in DOMAIN bm25_scores |-> 1]

VectorScores ==
    IF Embedded THEN similarity ELSE [i \in DOMAIN bm25_scores |-> 0]

HybridSearch_search(vector_weight, top_k) ==
    /\ bm25_scores /= <<>>
    /\ \E vector_scores \in {VectorScores} :
       \E bm25_normalized \in {Bm25Normalized(bm25_scores)} :
       \E vector_normalized \in {VectorNormalizedIfPositive(vector_scores)} :
           FuseAndSelect("HybridSearch.search", Embedded, vector_weight, top_k, vector_scores,
                         bm25_normalized, vector_normalized)

SelfMemorySearcher_search(vector_weight, top_k) ==
    /\ bm25_scores /= <<>>
    /\ \E vector_scores \in {VectorScores} :
       \E bm25_normalized \in {Bm25Normalized(bm25_scores)} :
       \E vector_normalized \in {VectorNormalizedIfSpread(vector_scores)} :
           FuseAndSelect("SelfMemorySearcher.search", Embedded, vector_weight, top_k, vector_scores,
                         bm25_normalized, vector_normalized)

search_hybrid(vector_weight, top_k) ==
    /\ bm25_scores /= <<>>
    /\ \E vector_scores \in {VectorScores} :
       \E bm25_normalized \in {Bm25Normalized(bm25_scores)} :
       \E vector_normalized \in {VectorNormalizedIfSpread(vector_scores)} :
           FuseAndSelect("SearchTester.search_hybrid", Embedded, vector_weight, top_k, vector_scores,
                         bm25_normalized, vector_normalized)

SearchInit(lexical, vector) ==
    /\ bm25_scores \in lexical
    /\ similarity \in vector
    /\ Len(similarity) \in {0, Len(bm25_scores)}
    /\ lastSearch = NoSearch

ScoreArrays(values) == UNION {[1..n -> values] : n \in 1..MaxDocs}

\* ------------------------------------------------------------- tokenizer
\* A text is a sequence of characters.  The characters of the model: ASCII
\* letters of both cases, ASCII digits, the ideograph U+4E2D of the CJK
\* Unified Ideographs block, the ideograph U+3400 of the Extension A block,
\* the Latin letter U+00E9 (e with acute accent), a space and a comma.
MaxText == 3

Characters == {"a", "b", "A", "1", "2", "U+4E2D", "U+3400", "U+00E9", " ", ","}

Texts == UNION {[1..n -> Characters] : n \in 0..MaxText}

\* The three character classes of the pattern
\* [一-龥]|[a-zA-Z]+|\d+ among the characters of the model.
PatternIdeographs == {"U+4E2D"}

PatternLetters == {"a", "b", "A"}

PatternDigits == {"1", "2"}

\* The length of the longest prefix of s made of characters of class.
RECURSIVE RunLength(_, _)
RunLength(s, class) ==
    IF s = <<>> \/ Head(s) \notin class THEN 0 ELSE 1 + RunLength(Tail(s), class)

\* re.findall: at each position the first alternative that matches, each
\* run taken greedily; a character no alternative matches is skipped.
RECURSIVE findall(_)
findall(s) ==
    IF s = <<>> THEN <<>>
    ELSE IF Head(s) \in PatternIdeographs THEN <<<<Head(s)>>>> \o findall(Tail(s))
    ELSE IF Head(s) \in PatternLetters
         THEN <<SubSeq(s, 1, RunLength(s, PatternLetters))>>
              \o findall(SubSeq(s, RunLength(s, PatternLetters) + 1, Len(s)))
    ELSE IF Head(s) \in PatternDigits
         THEN <<SubSeq(s, 1, RunLength(s, PatternDigits))>>
              \o findall(SubSeq(s, RunLength(s, PatternDigits) + 1, Len(s)))
    ELSE findall(Tail(s))

tokenizeAsIs(text) == findall(text)

\* re.findall(pattern, text.lower()).
tokenize(text) == findall(lower(text))

NoTokens == [impl |-> "none", text |-> <<>>, tokens |-> <<>>]

TokenInit == tokenized = NoTokens

Tokenize(impl, text) ==
    /\ tokenized' = [impl |-> impl, text |-> text, tokens |-> tokenize(text)]
    /\ UNCHANGED <<indexvars, cachevars, searchvars, guardvars>>

IndexBuilder_tokenize(text) == Tokenize("IndexBuilder.tokenize", text)

IncrementalIndexManager_tokenize(text) == Tokenize("IncrementalIndexManager._tokenize", text)

HybridSearch_tokenize(text) == Tokenize("HybridSearch.tokenize", text)

\* ------------------------------------------------------- compaction guard
\* Two of the six critical files.  The state of one on disk: whether it
\* exists and which content it has.
CriticalFiles == {"MEMORY.md", "SOUL.md"}

NoCritical == [present |-> FALSE, content |-> 0]

CriticalStates == {NoCritical} \cup {[present |-> TRUE, content |-> c] : c \in Contents}

cooldown == 900

\* The clock runs for MaxPeriods cooldown periods.
MaxPeriods == 2

\* guard-state.json as load_state reads it: two dicts keyed by relative path.
\* A missing file reads as the two empty dicts.
EmptyGuardState == [last_backup |-> <<>>, file_hashes |-> <<>>]

\* SHA-256 of the file: the content stands for its digest, 0 for the "" of a
\* file that does not exist.
compute_hash(relative_path) ==
    IF critical_files[relative_path].present THEN critical_files[relative_path].content ELSE 0

\* state["file_hashes"].get(relative_path): -1 stands for None.
NoHash == -1

stored_hash(state, relative_path) ==
    IF relative_path \in DOMAIN state.file_hashes THEN state.file_hashes[relative_path] ELSE NoHash

\* state["last_backup"].get(relative_path, 0).
last_backup_time(state, relative_path) ==
    IF relative_path \in DOMAIN state.last_backup THEN state.last_backup[relative_path] ELSE 0

\* Mutant: the cooldown is not looked at.
should_backup_changed(state, relative_path) ==
    /\ critical_files[relative_path].present
    /\ compute_hash(relative_path) /= stored_hash(state, relative_path)

should_backup(state, relative_path) ==
    /\ critical_files[relative_path].present
    /\ compute_hash(relative_path) /= stored_hash(state, relative_path)
    /\ ~(guard_time - last_backup_time(state, relative_path) < cooldown)

\* backup_file returns True: the source exists and is copied.
backup_succeeds(relative_path) == critical_files[relative_path].present

\* The three lists of results of check_and_backup.
Decided(state, force) ==
    [backed_up |-> {p \in CriticalFiles : (force \/ should_backup(state, p)) /\ backup_succeeds(p)},
     errors |-> {p \in CriticalFiles : (force \/ should_backup(state, p)) /\ ~backup_succeeds(p)},
     skipped |-> {p \in CriticalFiles : ~(force \/ should_backup(state, p))}]

\* self.state after backup_file on the files backed up.
StateAfter(state, backed_up) ==
    [last_backup |-> [p \in DOMAIN state.last_backup \cup backed_up |->
                         IF p \in backed_up THEN guard_time ELSE state.last_backup[p]],
     file_hashes |-> [p \in DOMAIN state.file_hashes \cup backed_up |->
                         IF p \in backed_up THEN compute_hash(p) ELSE state.file_hashes[p]]]

\* The copy that shutil.copy2 makes of a file at the time of the clock.
Copy(relative_path, force) ==
    [time |-> guard_time, content |-> critical_files[relative_path].content, forced |-> force]

NoCopy == [time |-> 0, content |-> 0, forced |-> FALSE]

NoCheck == [op |-> "none", force |-> FALSE, backed_up |-> {}, skipped |-> {}, errors |-> {}]

\* One run of the guard: load_state in __init__, the loop of check_and_backup
\* over the critical files, save_state.  Of the copies in the backup
\* directory the model keeps the latest of each file.
check_and_backup(force) ==
    /\ \E r \in {Decided(guard_state, force)} :
          /\ guard_state' = StateAfter(guard_state, r.backed_up)
          /\ backup_dir' = [p \in CriticalFiles |->
                               IF p \in r.backed_up THEN Copy(p, force) ELSE backup_dir[p]]
          /\ guard_last' = [op |-> "check", force |-> force, backed_up |-> r.backed_up,
                            skipped |-> r.skipped, errors |-> r.errors]
    /\ UNCHANGED <<critical_files, guard_time>>
    /\ UNCHANGED <<indexvars, cachevars, searchvars, tokenvars>>

\* The agent or the user writes a critical file, or removes it.
WriteCritical(relative_path, state) ==
    /\ critical_files[relative_path] /= state
    /\ critical_files' = [critical_files EXCEPT ![relative_path] = state]
    /\ guard_last' = [NoCheck EXCEPT !.op = "write"]
    /\ UNCHANGED <<guard_state, backup_dir, guard_time>>
    /\ UNCHANGED <<indexvars, cachevars, searchvars, tokenvars>>

\* time.time() advances, by one second less than the cooldown or by the
\* cooldown.
GuardTick(seconds) ==
    /\ guard_time + seconds <= (MaxPeriods + 1) * cooldown
    /\ guard_time' = guard_time + seconds
    /\ guard_last' = [NoCheck EXCEPT !.op = "time"]
    /\ UNCHANGED <<critical_files, guard_state, backup_dir>>
    /\ UNCHANGED <<indexvars, cachevars, searchvars, tokenvars>>

\* Before the first run: no guard-state.json, no copy, and a clock that
\* is at least one cooldown past the epoch.
GuardInit(states) ==
    /\ critical_files \in [CriticalFiles -> states]
    /\ guard_state = EmptyGuardState
    /\ backup_dir = [p \in CriticalFiles |-> NoCopy]
    /\ guard_time = cooldown
    /\ guard_last = NoCheck

\* ------------------------------------------------------------ the system

IndexInit(t, prov, files) ==
    /\ corpus \in [Paths -> files]
    /\ clock = t
    /\ provider = prov
    /\ docs_file = Absent(<<>>)
    /\ bm25_file = Absent([layout |-> "none", corpus |-> <<>>])
    /\ vector_file = Absent(<<>>)
    /\ meta_file = Absent(0)
    /\ hash_file = Absent({})
    /\ state_file = Absent(DefaultState)
    /\ proc = [w \in Writers |-> IdleProc]
    /\ hist = NoHist
    /\ reader = IdleReader

InitWith(t, prov) ==
    /\ IndexInit(t, prov, {NoFile, [present |-> TRUE, content |-> 1, mtime |-> 0]})
    /\ CacheInit({1}, {1})
    /\ SearchInit({<<>>}, {<<>>})
    /\ TokenInit
    /\ GuardInit({NoCritical})

InitAt(t) == InitWith(t, "up")

Init == InitAt(0)

Environment ==
    \/ \E p \in Paths, c \in Contents : AddFile(p, c)
    \/ \E p \in Paths, c \in Contents : ModifyFile(p, c)
    \/ \E p \in Paths : TouchFile(p)
    \/ \E p \in Paths : DeleteFile(p)

Writer(w) ==
    \/ StartIncremental(w)
    \/ StartFullRebuild(w)
    \/ \E force \in BOOLEAN : StartBuild(w, force)
    \/ B_Load(w)
    \/ B_WriteBm25(w)
    \/ B_WriteVec(w)
    \/ B_WriteMeta(w)
    \/ B_WriteDocs(w)
    \/ B_WriteHash(w)
    \/ FR_SaveState(w)
    \/ IU_Load(w)
    \/ IU_Read(w)
    \/ IU_EmbedHash(w)
    \/ IU_WriteDocs(w)
    \/ IU_WriteBm25(w)
    \/ IU_WriteVec(w)
    \/ IU_SaveState(w)
    \/ Return(w)

Next == Environment \/ Writer(MainWriter)

Spec == Init /\ [][Next]_vars

\* The same system with artifacts that get damaged between invocations.
NextFault == Next \/ \E f \in {"docs", "bm25", "vector", "state", "hash"} : Damage(f)

SpecFault == Init /\ [][NextFault]_vars

\* The same system with an embedding provider whose calls may fail or time
\* out, started when the clock leaves room for FlakyEdits corpus changes.
FlakyEdits == 1

SpecFlaky == InitWith(MaxClock - FlakyEdits, "flaky") /\ [][Next]_vars

\* The same system with the --check command of build_index.py.
NextCheck == Next \/ CheckCommand(MainWriter)

SpecCheck == Init /\ [][NextCheck]_vars

\* Two shells over an empty memory directory and an empty index directory:
\* files are added, both shells run incremental_update.py, the first one also
\* build_index.py --force, and nothing serialises the two invocations.
WriterStep(w) ==
    \/ B_Load(w)
    \/ B_WriteBm25(w)
    \/ B_WriteVec(w)
    \/ B_WriteMeta(w)
    \/ B_WriteDocs(w)
    \/ B_WriteHash(w)
    \/ FR_SaveState(w)
    \/ IU_Load(w)
    \/ IU_Read(w)
    \/ IU_EmbedHash(w)
    \/ IU_WriteDocs(w)
    \/ IU_WriteBm25(w)
    \/ IU_WriteVec(w)
    \/ IU_SaveState(w)

NextTwo ==
    \/ \E p \in Paths : AddFile(p, 1)
    \/ StartBuild(MainWriter, TRUE)
    \/ \E w \in Writers : StartIncremental(w)
    \/ \E w \in Writers : WriterStep(w)
    \/ Return(MainWriter)

InitTwo ==
    /\ IndexInit(0, "up", {NoFile})
    /\ CacheInit({1}, {1})
    /\ SearchInit({<<>>}, {<<>>})
    /\ TokenInit
    /\ GuardInit({NoCritical})

SpecTwo == InitTwo /\ [][NextTwo]_vars

\* The query-result cache alone, over an empty corpus.
NextCache ==
    \/ \E query \in Queries : get(query)
    \/ \E query \in SetQueries, results \in ResultLists : set(query, results)
    \/ \E query \in Queries \cup {<<>>} : invalidate(query)
    \/ clear_expired
    \/ \E size \in Sizes : NewInstance(size)
    \/ Tick

InitCache ==
    /\ IndexInit(0, "up", {NoFile})
    /\ CacheInit(Sizes, {MaxTtl})
    /\ SearchInit({<<>>}, {<<>>})
    /\ TokenInit
    /\ GuardInit({NoCritical})

SpecCache == InitCache /\ [][NextCache]_vars

\* The cache under more distinct queries than max_size allows entries: one
\* instance with max_size = MaxSize and MaxSize + 1 one-letter queries.
Letters == <<"a", "b", "c", "d", "e">>

EvictQueries == {<<Letters[i]>> : i \in 1..(MaxSize + 1)}

NextEvict ==
    \/ \E query \in EvictQueries : get(query)
    \/ \E query \in EvictQueries : set(query, <<"d1">>)
    \/ clear_expired
    \/ NewInstance(MaxSize)
    \/ Tick

InitEvict ==
    /\ IndexInit(0, "up", {NoFile})
    /\ CacheInit({MaxSize}, {MaxTtl})
    /\ SearchInit({<<>>}, {<<>>})
    /\ TokenInit
    /\ GuardInit({NoCritical})

SpecEvict == InitEvict /\ [][NextEvict]_vars

\* The queries that go through the cache, without I/O errors.
NextQuery ==
    \/ \E query \in SetQueries, documents \in BOOLEAN, results \in ResultLists :
          enhanced_search(query, documents, results, FALSE, FALSE, FALSE)
    \/ \E query \in SetQueries, results \in ResultLists :
          cached_search(query, results, FALSE, FALSE, FALSE)
    \/ \E query \in SetQueries, results \in ResultLists :
          EnhancedSearchEngine_search(query, results, FALSE, FALSE, FALSE)
    \/ Tick

SpecQuery == InitEvict /\ [][NextQuery]_vars

\* The same queries with at most one I/O error each: the write of the stats
\* file in get, the write of the cache store in set, or the write of the stats
\* file in set.
Failures == {"none", "get", "store", "stats"}

NextQueryFault ==
    \/ \E query \in SetQueries, documents \in BOOLEAN, results \in ResultLists, f \in Failures :
          enhanced_search(query, documents, results, f = "get", f = "store", f = "stats")
    \/ \E query \in SetQueries, results \in ResultLists, f \in Failures :
          cached_search(query, results, f = "get", f = "store", f = "stats")
    \/ \E query \in SetQueries, results \in ResultLists, f \in Failures :
          EnhancedSearchEngine_search(query, results, f = "get", f = "store", f = "stats")
    \/ Tick

SpecQueryFault == InitEvict /\ [][NextQueryFault]_vars

\* Hybrid search as a function of its inputs: a corpus of 1..MaxDocs indexed
\* documents with any BM25 scores and any cosine similarities for the query,
\* or a failed embedding call, searched by each implementation with weights
\* summing to 1 and any top_k. A search keeps
\* nothing from one call to the next, so a behaviour is one call.
NextSearch ==
    \/ \E vector_weight \in VectorWeights, top_k \in TopKs :
         lastSearch = NoSearch /\ HybridSearch_search(vector_weight, top_k)
    \/ \E vector_weight \in VectorWeights, top_k \in TopKs :
         lastSearch = NoSearch /\ SelfMemorySearcher_search(vector_weight, top_k)
    \/ \E vector_weight \in VectorWeights, top_k \in TopKs :
         lastSearch = NoSearch /\ search_hybrid(vector_weight, top_k)

InitSearch ==
    /\ IndexInit(0, "up", {NoFile})
    /\ CacheInit({MaxSize}, {MaxTtl})
    /\ SearchInit(ScoreArrays(Bm25Values), ScoreArrays(Cosines) \cup {<<>>})
    /\ TokenInit
    /\ GuardInit({NoCritical})

SpecSearch == InitSearch /\ [][NextSearch]_vars

\* The tokenizer as a function of its text, called once a behaviour as the
\* full build, the incremental update and the query path call it.
NextTokenize ==
    \/ tokenized = NoTokens /\ \E text \in Texts : IndexBuilder_tokenize(text)
    \/ tokenized = NoTokens /\ \E text \in Texts : IncrementalIndexManager_tokenize(text)
    \/ tokenized = NoTokens /\ \E text \in Texts : HybridSearch_tokenize(text)

InitTokenize ==
    /\ IndexInit(0, "up", {NoFile})
    /\ CacheInit({MaxSize}, {MaxTtl})
    /\ SearchInit({<<>>}, {<<>>})
    /\ TokenInit
    /\ GuardInit({NoCritical})

SpecTokenize == InitTokenize /\ [][NextTokenize]_vars

\* The compaction guard, run with and without --force while the critical
\* files change and time passes.
NextGuard ==
    \/ \E force \in BOOLEAN : check_and_backup(force)
    \/ \E p \in CriticalFiles, state \in CriticalStates : WriteCritical(p, state)
    \/ \E seconds \in {cooldown - 1, cooldown} : GuardTick(seconds)

InitGuard ==
    /\ IndexInit(0, "up", {NoFile})
    /\ CacheInit({MaxSize}, {MaxTtl})
    /\ SearchInit({<<>>}, {<<>>})
    /\ TokenInit
    /\ GuardInit(CriticalStates)

SpecGuard == InitGuard /\ [][NextGuard]_vars

\* The same system with a searcher loading the index at any moment, started
\* when the clock leaves room for ReadEdits corpus changes.
ReadEdits == 1

NextRead == Next \/ Reader

SpecRead == InitAt(MaxClock - ReadEdits) /\ [][NextRead]_vars


\* ------------------------------------------------------------ the claims
Quiescent == \A w \in Writers : ~Running(w)

SnapshotReadable == docs_file.st = "ok" /\ bm25_file.st = "ok" /\ vector_file.st = "ok"

\* The paths of the persisted manifest; no manifest, no paths.
ManifestPaths == IF docs_file.st = "ok" THEN {docs_file.val[i].path : i \in 1..Len(docs_file.val)} ELSE {}

\* Row r is what the provider returns for document d (or the zero fallback).
RowOf(d, r) == r.zero \/ (r.content = d.content /\ r.name \in {"", d.path})

Succeeded(w) == proc[w].pc = "done" /\ proc[w].result = "success"

\* C1: whenever no build or update is running, a persisted snapshot has as
\* many matrix rows as manifest entries and as many token sequences in the
\* lexical model.
C1_SnapshotCountsAgree ==
    Quiescent /\ SnapshotReadable =>
        /\ Len(vector_file.val) = Len(docs_file.val)
        /\ Len(bm25_file.val.corpus) = Len(docs_file.val)

\* C2: after an incremental update that patched the snapshot, the matrix has
\* one row per manifest entry and row i is the embedding of entry i.
C2_RowsFollowDocuments ==
    \A w \in Writers :
        Succeeded(w) /\ proc[w].op = "incr" /\ proc[w].route = "patch" =>
            /\ Len(vector_file.val) = Len(docs_file.val)
            /\ \A i \in 1..Len(docs_file.val) :
                   i <= Len(vector_file.val) => RowOf(docs_file.val[i], vector_file.val[i])

\* C4: when incremental_update returns success (the corpus not having changed
\* while it ran), the paths of the persisted manifest are the corpus files
\* scan_changes saw.
C4_ManifestIsCorpusAtDiff ==
    \A w \in Writers :
        Succeeded(w) /\ proc[w].op = "incr" /\ ~proc[w].dirty => ManifestPaths = proc[w].view

\* C5: after every completed build, full_rebuild or incremental_update (the
\* corpus not having changed while it ran), the keys of file_hashes are the
\* paths of the persisted manifest.
C5_HashKeysAreManifestPaths ==
    \A w \in Writers :
        Succeeded(w) /\ ~proc[w].dirty => DOMAIN _load_state.file_hashes = ManifestPaths

\* C9: an incremental_update invoked while no snapshot exists takes the full
\* build and never reports success while the snapshot is still absent.
C9_NoSnapshotMeansFullBuild ==
    \A w \in Writers :
        proc[w].pc = "done" /\ proc[w].op = "incr" /\ proc[w].noSnap =>
            /\ proc[w].route = "rebuild"
            /\ proc[w].result = "success" => SnapshotReadable

\* C10: an update that loaded an unreadable artifact, or a matrix whose row
\* count differs from the document count, patches nothing: it goes to the
\* full rebuild.
C10_BadLoadMeansRebuild ==
    \A w \in Writers : proc[w].loadBad => proc[w].route /= "patch"


\* The step in which writer w runs scan_changes, and the one in which the
\* builder decides whether to rebuild.
IsScanStep(w) == CanStart(w) /\ proc'[w].op = "incr"

IsBuildLoadStep(w) == proc[w].pc = "b_load" /\ proc'[w].pc /= "b_load"

ReturnsNoChange(w) ==
    /\ proc'[w].pc = "done" /\ proc'[w].result = "success" /\ proc'[w].route = "noop"
    /\ UNCHANGED artifacts

\* C6: scan_changes returns added = the current paths the prior map does not
\* know, modified = the known current paths whose hash differs from the
\* stored one, deleted = the known paths that are gone; the three are
\* pairwise disjoint and a known path with an equal hash is in none.
C6_ScanPartition ==
    [][\A w \in Writers : IsScanStep(w) =>
          LET prior == _load_state.file_hashes
              cur == {p \in Paths : corpus[p].present}
              A == Range(proc'[w].added)
              M == Range(proc'[w].modified)
              D == Range(proc'[w].deleted)
          IN /\ A = cur \ DOMAIN prior
             /\ M = {p \in cur \cap DOMAIN prior : Digest(corpus[p].content) /= prior[p]}
             /\ D = DOMAIN prior \ cur
             /\ A \cap M = {} /\ A \cap D = {} /\ M \cap D = {}
             /\ \A p \in cur \cap DOMAIN prior :
                    Digest(corpus[p].content) = prior[p] => p \notin A \cup M \cup D
             /\ Len(proc'[w].added) = Cardinality(A)
             /\ Len(proc'[w].modified) = Cardinality(M)
             /\ Len(proc'[w].deleted) = Cardinality(D)]_vars

C6_Witness ==
    \E w \in Writers : /\ proc[w].pc = "iu_load"
                       /\ proc[w].modified /= <<>>
                       /\ proc[w].deleted /= <<>>

\* C7: when the corpus is as the last successful incremental update or full
\* rebuild saw it, a further incremental_update finds an empty diff, returns
\* success and writes no artifact: manifest, lexical model, matrix, metadata,
\* corpus hash and incremental state stay exactly as they were.
C7_UnchangedCorpusIsNoOp ==
    [][\A w \in Writers : IsScanStep(w) /\ hist.clean => ReturnsNoChange(w)]_vars

C7_Witness ==
    \E w \in Writers : /\ Succeeded(w) /\ proc[w].op = "incr" /\ proc[w].route = "noop"
                       /\ proc[w].start.clean
                       /\ SnapshotReadable
                       /\ state_file.st = "ok" /\ state_file.val.total_updates >= 1

\* C8 (amended): a file touched with its content unchanged is in none of
\* added, modified, deleted of scan_changes, and an incremental_update run
\* when nothing but touches happened since the last successful one finds no
\* diff and writes nothing.
C8_TouchIsNoDiff ==
    [][\A w \in Writers : IsScanStep(w) =>
          /\ \A p \in hist.touched :
                 p \notin Range(proc'[w].added) \cup Range(proc'[w].modified) \cup Range(proc'[w].deleted)
          /\ hist.onlyTouched => ReturnsNoChange(w)]_vars

C8_Witness ==
    \E w \in Writers : /\ Succeeded(w) /\ proc[w].op = "incr" /\ proc[w].route = "noop"
                       /\ proc[w].start.touched /= {}
                       /\ proc[w].start.onlyTouched /\ ~proc[w].start.clean

\* C8 as claimed: after a touch no change-detection pass triggers an index
\* update, neither scan_changes nor the corpus-hash check of a non-forced
\* build run on a corpus that differs from the indexed one by touches only.
C8_TouchTriggersNoUpdate ==
    [][\A w \in Writers :
          /\ IsScanStep(w) /\ hist.onlyTouched => ReturnsNoChange(w)
          /\ IsBuildLoadStep(w) /\ proc[w].op = "build" /\ ~proc[w].force /\ hist.hashFresh =>
                 proc'[w].route = "uptodate" /\ UNCHANGED artifacts]_vars


\* C3: a searcher that loads the manifest and the matrix while a build or an
\* update is between two of its file writes never sees a manifest whose
\* length differs from the matrix's row count.
C3_ReaderSeesNoTornSnapshot ==
    reader.pc = "loaded" /\ reader.concurrent => reader.n_docs = reader.n_rows

\* C11: a file changed after diff time, while a full_rebuild or an
\* incremental_update is still running, is never recorded as already indexed:
\* when the invocation has succeeded, every current file whose recorded hash
\* is the hash of its present content has a manifest entry with that content.
RecordedAsIndexed(p) ==
    /\ p \in DOMAIN _load_state.file_hashes
    /\ _load_state.file_hashes[p] = _compute_file_hash(p)

InManifest(p) ==
    /\ docs_file.st = "ok"
    /\ \E i \in 1..Len(docs_file.val) :
           docs_file.val[i].path = p /\ docs_file.val[i].content = corpus[p].content

C11_LateChangeIsNotRecorded ==
    \A w \in Writers :
        Succeeded(w) /\ proc[w].op \in {"incr", "full"} /\ proc[w].dirty =>
            \A p \in CurrentPaths : RecordedAsIndexed(p) => InManifest(p)

\* The manifest position of the entry an invocation wrote for path p: the
\* last entry with that path.
LastIndex(docs, p) ==
    CHOOSE i \in 1..Len(docs) : docs[i].path = p /\ \A j \in (i+1)..Len(docs) : docs[j].path /= p

ManifestDocs == IF docs_file.st = "ok"
                THEN {<<docs_file.val[i].path, docs_file.val[i].content>> : i \in 1..Len(docs_file.val)}
                ELSE {}

CorpusDocs == {<<p, corpus[p].content>> : p \in CurrentPaths}

Consistent == SnapshotReadable /\ ManifestDocs = CorpusDocs

\* C14: with a corpus that has stopped changing and that a full build can
\* index, repeated incremental_update invocations reach Consistent.  An
\* invocation that finds an empty diff writes nothing, so every later one
\* finds the same diff and the same snapshot: the claim requires that the
\* index is Consistent whenever incremental_update returns with an empty diff
\* over a non-empty corpus.
C14_EmptyDiffMeansConsistent ==
    \A w \in Writers :
        Succeeded(w) /\ proc[w].op = "incr" /\ proc[w].route = "noop" /\ CurrentPaths /= {} =>
            Consistent

\* C15: while no build or update is running, no two entries of the persisted
\* manifest have the same path (hence the same id, the file's stem).
C15_ManifestPathsUnique ==
    Quiescent /\ docs_file.st = "ok" =>
        \A i, j \in 1..Len(docs_file.val) :
            docs_file.val[i].path = docs_file.val[j].path => i = j

\* SearchTester.load_index (test_search.py): the pickle must be the builder's
\* dictionary {"bm25", "tokenized_corpus"}; subscripting anything else raises.
SearchTester_load_index ==
    /\ bm25_file.st = "ok" /\ bm25_file.val.layout = "dict"
    /\ vector_file.st = "ok"
    /\ docs_file.st = "ok"

\* C16: after an incremental update that patched the snapshot (the corpus not
\* having changed meanwhile) the snapshot is the one a full build over the
\* same corpus produces: the same documents, for each document the token
\* sequence the builder computes, and a lexical artifact in the builder's
\* layout, which the readers of a full-build snapshot load.
C16_UpdateEqualsFullBuild ==
    \A w \in Writers :
        Succeeded(w) /\ proc[w].op = "incr" /\ proc[w].route = "patch" /\ ~proc[w].dirty =>
            /\ ManifestDocs = CorpusDocs
            /\ Len(docs_file.val) = Cardinality(CorpusDocs)
            /\ Len(bm25_file.val.corpus) = Len(docs_file.val)
            /\ \A i \in 1..Len(docs_file.val) :
                   bm25_file.val.corpus[i] = tokenize_build(docs_file.val[i])
            /\ SearchTester_load_index

\* The step in which the --check command runs.
IsCheckStep(w) == CanStart(w) /\ proc'[w].op = "check"

\* C17: the corpus-hash check reports that a rebuild is needed exactly when no
\* corpus hash is stored or the digest over the (id, mtime) pairs of the
\* current corpus documents differs from the stored one, in the --check
\* command as in a non-forced build; and a non-forced build that needs no
\* rebuild leaves every artifact unchanged.
C17_CheckReportsStaleExactly ==
    [][\A w \in Writers :
          /\ IsCheckStep(w) =>
                 (proc'[w].result = "failure" <=> check_needs_rebuild(load_documents))
          /\ IsBuildLoadStep(w) /\ ~proc[w].force /\ load_documents /= <<>> =>
                 /\ proc'[w].route = "rebuild" <=> check_needs_rebuild(load_documents)
                 /\ ~check_needs_rebuild(load_documents) => UNCHANGED artifacts]_vars

\* The step is a get of query q.
IsGet(q) == last'.op = "get" /\ last'.query = q /\ stats_file' /= stats_file

\* C18: set(Q, R) followed immediately by get(Q'), where Q' is Q or differs
\* from Q in letter case or whitespace only, returns R, whatever the cache
\* held before and whatever max_size is.
C18_SetThenGetReturns ==
    [][\A q \in Queries :
          /\ last.op = "set"
          /\ _compute_hash(q) = _compute_hash(last.query)
          /\ IsGet(q)
          => last'.hit /\ last'.ret = last.results]_vars


\* C19: a get of a query whose entry is in the cache, set by this instance or
\* loaded from the store, is a miss when the age of the entry (now minus its
\* timestamp) exceeds ttl_seconds: it returns no list, counts one miss and no
\* hit, and the entry is gone from the cache; otherwise it is a hit that
\* returns the results of the entry.
C19_ExpiredEntryIsMiss ==
    [][\A q \in Queries :
          IsGet(q) /\ HasKey(_cache, _compute_hash(q))
          => LET entry == _cache[KeyIndex(_cache, _compute_hash(q))]
             IN IF now - entry.timestamp > ttl_seconds
                THEN /\ ~last'.hit
                     /\ last'.ret = <<>>
                     /\ _load_stats'.misses = _load_stats.misses + 1
                     /\ _load_stats'.hits = _load_stats.hits
                     /\ ~HasKey(_cache', _compute_hash(q))
                ELSE /\ last'.hit
                     /\ last'.ret = entry.results
                     /\ _load_stats'.hits = _load_stats.hits + 1
                     /\ _load_stats'.misses = _load_stats.misses]_vars

\* A get has just missed on an entry older than ttl_seconds that this instance
\* loaded from the store, where it still is: get writes nothing to the store
\* and set, invalidate and clear_expired would have purged it.
C19_Witness ==
    /\ last.op = "get" /\ ~last.hit /\ last.afterLoad
    /\ ~HasKey(_cache, _compute_hash(last.query))
    /\ cache_file.st = "ok"
    /\ \E i \in 1..Len(cache_file.val) :
          /\ cache_file.val[i].query_hash = _compute_hash(last.query)
          /\ now - cache_file.val[i].timestamp > ttl_seconds
    /\ _load_stats.misses = 1


\* C20: when a set has completed, the cache holds at most max_size entries, in
\* memory and in the store that the set wrote, whatever get, set, invalidate,
\* clear_expired calls and new instances came before.
C20_SetKeepsSizeLimit ==
    last.op = "set" => Len(_cache) <= max_size /\ Len(cache_file.val) <= max_size

\* A set has just trimmed a full cache: the entry it stored is new, hence not
\* expired, and yet it is not in the cache, which holds max_size entries.
C20_Witness ==
    /\ last.op = "set"
    /\ ~HasKey(_cache, _compute_hash(last.query))
    /\ Len(_cache) = max_size
    /\ cache_file = Stored(_cache)


\* A step that is a completed set.
IsSet == last'.op = "set" /\ _load_stats'.adds = _load_stats.adds + 1

\* (hit_count, last_accessed) of x is greater than or equal to that of y.
TupleGE(x, y) ==
    \/ x.hit_count > y.hit_count
    \/ x.hit_count = y.hit_count /\ x.last_accessed >= y.last_accessed

\* C21: when a set leaves more unexpired entries than max_size, counting the
\* one it stores, every entry that remains has a (hit_count, last_accessed)
\* tuple greater than or equal to that of every entry that was evicted, the
\* stored entry (1, now) included if it is the one evicted.
C21_EvictsSmallestTuples ==
    [][IsSet =>
         LET h == _compute_hash(last'.query)
             old == {e \in Range(_cache) : e.query_hash /= h /\ ~(now - e.timestamp > ttl_seconds)}
             gone == {e \in old : ~HasKey(_cache', e.query_hash)}
             stored == [hit_count |-> 1, last_accessed |-> now]
         IN Cardinality(old) + 1 > max_size
            => /\ \A k \in Range(_cache'), e \in gone : TupleGE(k, e)
               /\ ~HasKey(_cache', h) => \A k \in Range(_cache') : TupleGE(k, stored)
               /\ Len(_cache') = max_size]_vars

\* A set has evicted an entry that was neither the first inserted nor the one
\* just stored: an older entry with more hits remains.
C21_Witness ==
    /\ last.op = "set"
    /\ HasKey(_cache, _compute_hash(last.query))
    /\ Len(_cache) = max_size
    /\ \E e \in last.evicted, k \in Range(_cache) :
          k.timestamp < e.timestamp /\ k.hit_count > e.hit_count


\* A step that is a completed get.
IsGetStep == last'.op = "get" /\ _load_stats'.total_queries = _load_stats.total_queries + 1

\* The entries of c other than the one of key h.
Others(c, h) == {e \in Range(c) : e.query_hash /= h}

\* C22: after a set, an entry under the key of the query has hit_count 1 and
\* the time and results of the call, whatever entry the key held before, and
\* no other entry is changed; a get hit adds exactly 1 to the hit_count of
\* its entry, sets its last_accessed to the time of the call and changes
\* nothing else; a get miss changes no entry that remains.  (Whether the
\* stored entry does remain after the set is the subject of C18.)
C22_HitCounts ==
    [][LET h == _compute_hash(last'.query)
       IN /\ IsSet =>
               /\ \A e \in Range(_cache') \ Others(_cache', h) :
                     /\ e.hit_count = 1
                     /\ e.timestamp = now /\ e.last_accessed = now
                     /\ e.results = last'.results /\ e.query = last'.query
               /\ Others(_cache', h) \subseteq Others(_cache, h)
          /\ IsGetStep /\ last'.hit =>
               /\ HasKey(_cache, h) /\ HasKey(_cache', h)
               /\ _cache'[KeyIndex(_cache', h)] =
                     [_cache[KeyIndex(_cache, h)] EXCEPT !.hit_count = @ + 1, !.last_accessed = now,
                                                         !.order = _cache'[KeyIndex(_cache', h)].order]
               /\ Others(_cache', h) = Others(_cache, h)
          /\ IsGetStep /\ ~last'.hit =>
               /\ Range(_cache') = Others(_cache, h)
               /\ cache_file' = cache_file]_vars

\* A set has just replaced the entry of its key: nothing expired (no time has
\* passed), nothing was evicted (two sets, max_size = MaxSize), and the one
\* entry, which a get had hit before, counts 1.
C22_Witness ==
    /\ last.op = "set" /\ last.evicted = {}
    /\ now = 0
    /\ _load_stats.adds = 2 /\ _load_stats.hits = 1 /\ _load_stats.misses = 0
    /\ Len(_cache) = 1
    /\ _cache[1].hit_count = 1
    /\ cache_file = Stored(_cache)


\* C23: a get adds 1 to exactly one of hits and misses and leaves adds; a set
\* adds 1 to adds and leaves hits and misses; every other step (invalidate,
\* clear_expired, a new instance, time passing) leaves the stats file as it
\* is, also when it removes entries, and so does the eviction of a set; and
\* in every state reached total_queries = hits + misses and, when that sum is
\* positive, hit_rate = hits / (hits + misses).
C23_StatsAreRunningCounters ==
    [][LET old == _load_stats
           new == _load_stats'
       IN /\ last'.op = "get" =>
               /\ new.adds = old.adds
               /\ \/ new.hits = old.hits + 1 /\ new.misses = old.misses /\ last'.hit
                  \/ new.hits = old.hits /\ new.misses = old.misses + 1 /\ ~last'.hit
          /\ last'.op = "set" =>
               new.adds = old.adds + 1 /\ new.hits = old.hits /\ new.misses = old.misses
          /\ last'.op \notin {"get", "set"} => stats_file' = stats_file
          /\ new.total_queries = new.hits + new.misses
          /\ new.hits + new.misses > 0 =>
               /\ new.hit_rate.den > 0
               /\ new.hit_rate.num * (new.hits + new.misses) = new.hits * new.hit_rate.den]_vars

\* After a hit, a miss and an add the cache has been emptied by invalidate:
\* the counters stand at 1, 1, 1 and the hit rate at 1 / 2.
C23_Witness ==
    /\ last.op = "invalidate"
    /\ _cache = <<>> /\ cache_file = Stored(<<>>)
    /\ _load_stats.hits = 1 /\ _load_stats.misses = 1 /\ _load_stats.adds = 1
    /\ _load_stats.total_queries = 2
    /\ _load_stats.hit_rate = [num |-> 1, den |-> 2]


\* The queries that go through the cache.
QueryOps == {"enhanced_search", "cached_search", "EnhancedSearchEngine.search"}

\* C24: a query first asks the cache; when its get reports a hit, whatever
\* list the entry holds, the indexes are not queried and the list of the
\* entry is returned; the indexes are queried only on a miss, and then the
\* result is stored with set.
C24_CacheConsultedFirst ==
    [][last'.op \in QueryOps =>
         LET h == _compute_hash(last'.query)
         IN /\ last'.hit =>
                 /\ ~last'.searched
                 /\ HasKey(_cache, h)
                 /\ last'.ret = _cache[KeyIndex(_cache, h)].results
            /\ last'.searched =>
                 /\ ~last'.hit
                 /\ _load_stats'.adds = _load_stats.adds + 1
                 /\ last'.ret = last'.results]_vars


\* C25: when a write of the cache store or of the stats file fails during a
\* query, no exception reaches the caller of the query and the query behaves
\* as on a miss: the results of the search it runs are what it returns.
C25_IoErrorsAreNonFatal ==
    last.op \in QueryOps /\ last.ioerror
    => /\ ~last.raised
       /\ last.searched => last.ret = last.results


InUnitInterval(x) == Leq(Frac(0, 1), x) /\ Leq(x, Frac(1, 1))

\* C26: with non-negative weights summing to 1, every fused score a search
\* computes lies in [0, 1], whatever the lexical and vector score arrays
\* (all-equal, all-zero and negative similarities included).
C26_FusedScoresInUnitInterval ==
    \A i \in DOMAIN lastSearch.combined_scores : InUnitInterval(lastSearch.combined_scores[i])


AllEqual(a) == \A i, j \in DOMAIN a : a[i] = a[j]

\* C27: in every search implementation, when all vector scores are equal
\* (a corpus of one document, for instance) the normalised vector score of
\* every document is its score unchanged, a defined number; and when the
\* maximum BM25 score is zero the normalised BM25 scores are the scores
\* unchanged.
C27_DegenerateNormalisationIsNoOp ==
    lastSearch.impl /= "none"
    => /\ AllEqual(lastSearch.vector_scores)
          => \A i \in DOMAIN lastSearch.vector_scores :
                Same(lastSearch.vector_normalized[i], Frac(lastSearch.vector_scores[i], 1))
       /\ ArrayMax(bm25_scores) = 0
          => \A i \in DOMAIN bm25_scores :
                Same(lastSearch.bm25_normalized[i], Frac(bm25_scores[i], 1))


Returned == {lastSearch.results[r].idx : r \in DOMAIN lastSearch.results}

\* C28: a search with top_k = K >= 1 over N indexed documents returns
\* min(K, N) results; their ranks are 1, 2, ... in list order; their fused
\* scores do not increase with the rank; the fused score of each is
\* bm25_weight * (its normalised BM25 score) + vector_weight * (its
\* normalised vector score); and no document left out has a higher fused
\* score than a returned one.
C28_TopKRankedByFusedScore ==
    lastSearch.impl /= "none"
    => LET res == lastSearch.results
           N == Len(bm25_scores)
       IN /\ Len(res) = (IF lastSearch.top_k < N THEN lastSearch.top_k ELSE N)
          /\ \A r \in DOMAIN res : res[r].rank = r
          /\ \A r \in DOMAIN res : r < Len(res) => Leq(res[r + 1].combined_score, res[r].combined_score)
          /\ \A r \in DOMAIN res :
                LET b == lastSearch.bm25_normalized[res[r].idx]
                    v == lastSearch.vector_normalized[res[r].idx]
                IN Same(res[r].combined_score,
                        Frac(lastSearch.bm25_weight * b.num * v.den + lastSearch.vector_weight * v.num * b.den,
                             Tenths * b.den * v.den))
          /\ \A d \in (1..N) \ Returned : \A r \in DOMAIN res :
                Leq(lastSearch.combined_scores[d], res[r].combined_score)


\* C29: of two documents with equal fused scores the one that comes earlier
\* in the corpus is ranked first, and is the one returned when top_k leaves
\* room for only one of them.
C29_TiesKeepCorpusOrder ==
    lastSearch.impl /= "none"
    => LET res == lastSearch.results
       IN /\ \A r, q \in DOMAIN res :
                r < q /\ Same(res[r].combined_score, res[q].combined_score) => res[r].idx < res[q].idx
          /\ \A r \in DOMAIN res : \A d \in (1..Len(bm25_scores)) \ Returned :
                Same(res[r].combined_score, lastSearch.combined_scores[d]) => res[r].idx < d


\* What C30 says of a search whose embedding call failed: it returns its
\* min(top_k, N) results, the vector score of every document is zero, every
\* fused score is bm25_weight * (normalised BM25 score), and the results come
\* in the order of the normalised BM25 scores: none has a higher normalised
\* BM25 score than a result ranked before it or than a returned one when it
\* is left out.
LexicalRanking ==
    LET res == lastSearch.results
        N == Len(bm25_scores)
        lexical(d) == lastSearch.bm25_normalized[d]
    IN /\ Len(res) = (IF lastSearch.top_k < N THEN lastSearch.top_k ELSE N)
       /\ \A r \in DOMAIN res :
             /\ res[r].vector_score = 0
             /\ Same(res[r].combined_score,
                     Frac(lastSearch.bm25_weight * lexical(res[r].idx).num, Tenths * lexical(res[r].idx).den))
       /\ \A r, q \in DOMAIN res : r < q => Leq(lexical(res[q].idx), lexical(res[r].idx))
       /\ \A r \in DOMAIN res : \A d \in (1..N) \ Returned : Leq(lexical(d), lexical(res[r].idx))

PersistedPaths == IF docs_file.st = "ok" THEN Range(PathsOf(docs_file.val)) ELSE {}

RecordedPaths == DOMAIN _load_state.file_hashes

\* C31, the sequential half: a writer invocation that succeeded and during
\* which no other invocation ran has lost none of the changes it applied,
\* whatever ran before or after it: every file it indexed is in the persisted
\* document list and, when it was an incremental_update.py invocation, in
\* the persisted state.
C31_SequentialWritersLoseNothing ==
    \A w \in Writers :
        Succeeded(w) /\ ~proc[w].overlap
        => \A p \in proc[w].embedded :
              /\ p \in PersistedPaths
              /\ proc[w].op = "incr" => p \in RecordedPaths

\* C31, the concurrent half: two invocations that ran at the same time have
\* both succeeded, nothing runs any more, and a file that one of them indexed
\* and that is still in the corpus is neither in the persisted document list
\* nor in the persisted state.
C31_Witness ==
    /\ \A w \in Writers : Succeeded(w) /\ proc[w].overlap
    /\ \E w \in Writers : \E p \in proc[w].embedded :
          /\ corpus[p].present
          /\ p \notin PersistedPaths
          /\ p \notin RecordedPaths


\* ---------------------------------------------------------------- C32
\* The tokens a text has under three character classes, by position: every
\* character of ideographs alone, every maximal run of letters, every
\* maximal run of digits.
IsMaximalRun(s, i, j, class) ==
    /\ i <= j
    /\ \A k \in i..j : s[k] \in class
    /\ i > 1 => s[i - 1] \notin class
    /\ j < Len(s) => s[j + 1] \notin class

TokenSpans(s, ideographs, letters, digits) ==
    {span \in (1..Len(s)) \X (1..Len(s)) :
        \/ span[1] = span[2] /\ s[span[1]] \in ideographs
        \/ IsMaximalRun(s, span[1], span[2], letters)
        \/ IsMaximalRun(s, span[1], span[2], digits)}

InTextOrder(s, spans) ==
    LET order == CHOOSE f \in [1..Cardinality(spans) -> spans] :
                     \A m, n \in 1..Cardinality(spans) : m < n => f[m][1] < f[n][1]
    IN  [n \in 1..Cardinality(spans) |-> SubSeq(s, order[n][1], order[n][2])]

TokensOf(text, ideographs, letters, digits) ==
    InTextOrder(lower(text), TokenSpans(lower(text), ideographs, letters, digits))

\* C32, as the pattern has it: whichever of the full build, the incremental
\* update and the query path tokenizes a text, the result is the lowercased
\* text's tokens in text order: each ideograph of U+4E00..U+9FA5 alone, each
\* maximal run of the ASCII letters, each maximal run of digits; every other
\* character (other ideographs and accented Latin letters included) is
\* discarded and separates runs.
C32_TokenizeFollowsPattern ==
    tokenized.impl /= "none"
    => tokenized.tokens
       = TokensOf(tokenized.text, PatternIdeographs, PatternLetters, PatternDigits)

\* The ideographic characters and the Latin letters among the characters
\* of the model, whatever block they are in.
Ideographs == {"U+4E2D", "U+3400"}

LatinLetters == {"a", "b", "A", "U+00E9"}

\* C32 as stated: each ideographic character is a token of its own and each
\* maximal run of Latin letters is one token.
C32_TokenizeByCharacterKind ==
    tokenized.impl /= "none"
    => tokenized.tokens = TokensOf(tokenized.text, Ideographs, LatinLetters, PatternDigits)

\* The query path has tokenized a text with an uppercase letter and a
\* discarded character into two tokens.
C32_Witness ==
    /\ tokenized.impl = "HybridSearch.tokenize"
    /\ \E i \in 1..Len(tokenized.text) : tokenized.text[i] = "A"
    /\ \E i \in 1..Len(tokenized.text) : tokenized.text[i] \in {" ", ",", "U+00E9", "U+3400"}
    /\ Len(tokenized.tokens) = 2

\* ---------------------------------------------------------------- C33
\* C33: when incremental_update.py --full returns success, the build it ran
\* has regenerated the snapshot (it did not stop at "index is up to date"),
\* and the saved state has total_updates = 1 and, the corpus not having
\* changed meanwhile, the hashes of exactly the documents of the manifest.
C33_FullRebuildAlwaysRebuilds ==
    \A w \in Writers :
        Succeeded(w) /\ proc[w].op = "full"
        => /\ proc[w].route = "rebuild"
           /\ state_file.st = "ok"
           /\ state_file.val.total_updates = 1
           /\ ~proc[w].dirty => DOMAIN state_file.val.file_hashes = PersistedPaths

ChangedSinceCopy(p) ==
    /\ critical_files[p].present
    /\ backup_dir[p] = NoCopy \/ backup_dir[p].content /= critical_files[p].content

CooledDown(p) == backup_dir[p] = NoCopy \/ guard_time - backup_dir[p].time >= cooldown

SavesAfterUpdate ==
    \E w \in Writers : proc[w].pc = "iu_state" /\ Succeeded(w)' /\ proc'[w].route = "patch"

SavesAfterFullRebuild == \E w \in Writers : proc[w].pc = "fr_state" /\ Succeeded(w)'

\* C36: total_updates of the saved state grows by exactly 1 in the step that
\* ends an incremental update of a non-empty diff, becomes 1 in the step that
\* ends a successful full rebuild, and changes in no other step: not in an
\* update that found no change, not in one that failed, not in a build.  So,
\* between two full rebuilds, it never decreases.
C36_UpdateCountSteps ==
    [][IF SavesAfterUpdate
       THEN /\ _load_state'.total_updates = _load_state.total_updates + 1
            /\ \A w \in Writers :
                  proc[w].pc = "iu_state" => proc[w].added \o proc[w].modified \o proc[w].deleted /= <<>>
       ELSE IF SavesAfterFullRebuild
       THEN _load_state'.total_updates = 1
       ELSE _load_state'.total_updates = _load_state.total_updates]_vars

\* An incremental update of a non-empty diff has returned and has brought
\* the count to 3.
C36_Witness ==
    /\ Succeeded(MainWriter)
    /\ proc[MainWriter].op = "incr" /\ proc[MainWriter].route = "patch"
    /\ _load_state.total_updates = 3

\* ---------------------------------------------------------------- C37
\* C37: last_full_build of the saved state changes only in the step that ends
\* a successful full rebuild; every other step, the end of an incremental
\* update included, leaves it as it was.
C37_FullBuildTimeOnlyByFullBuild ==
    [][~SavesAfterFullRebuild
       => _load_state'.last_full_build = _load_state.last_full_build]_vars

\* ---------------------------------------------------------------- C38
\* What the claim compares of an entry.
EntryView(e) ==
    [query_hash |-> e.query_hash, results |-> e.results, hit_count |-> e.hit_count,
     last_accessed |-> e.last_accessed]

EntryViews(c) == {EntryView(c[i]) : i \in 1..Len(c)}

\* C38: after any sequence of get, set, invalidate and clear_expired, a new
\* instance that loads the store holds the entries of the instance that made
\* the calls, with the same results, hit_count and last_accessed.
C38_StoreReflectsMemory == EntryViews(_load_cache) = EntryViews(_cache)

=============================================================================
